---------------------------- MODULE Spec2Model ----------------------------
(***************************************************************************)
(* A model of the ChaseAnalyzer statement pipeline: format detection,      *)
(* per-format transaction extraction, master categorization, balance       *)
(* reconciliation and the CSV balancing utility.                           *)
(*                                                                         *)
(* Conventions                                                             *)
(*  - Money is an integer number of cents (0.01 = 1, 300.00 = 30000).      *)
(*    Where the code compares a floating-point sum with zero exactly       *)
(*    (category_totals.check_and_balance_csv) the IEEE-754 rounding of     *)
(*    the sum is modelled as well, see the section "binary64".             *)
(*  - A text (merchant, file path, vendor pattern) is a sequence of        *)
(*    chunks; a chunk is an atomic run of characters.  Python's            *)
(*    `p in s` is "p is a contiguous sub-sequence of s".                   *)
(*  - A statement line is a text as well: words, one " " chunk per space,   *)
(*    and a plural "S" or "s" apart from its word where the code looks for *)
(*    both ('PAYMENT' and 'PAYMENTS').  The regular expressions are        *)
(*    matched on the lexical classes of the chunks.                        *)
(***************************************************************************)
EXTENDS Integers, Sequences, FiniteSets, TLC

VARIABLES
    \* EnhancedChaseStatementAnalyzer fields (chase_analysis.py __init__)
    pdf_file, transactions,
    statement_previous_balance, statement_new_balance,
    statement_purchase_total, statement_payment_total,
    verification,      \* the dict returned by verify_totals
    category_table,    \* what display_category_table printed
    \* detect_statement_format
    lines,             \* pdf_text.split('\n')
    format_type,       \* the detected format
    \* master categorization (chase_analysis.py, real_chase_analysis.py,
    \* utils/category_totals.py)
    impl,              \* which of the three programs runs
    master_disk,       \* the rows of the master file, or NoFile
    loaded_rules,      \* master_categories as loaded, read by the loop
    master_categories, \* master_categories when the call returns
    new_vendors,       \* set of (vendor_key, category)
    statement_txns,    \* the transactions handed to the categorizer
    categorized,       \* the same with original_category and category
    auto_balance,      \* calculate_category_totals' auto_balance argument
    csv_total,         \* total_amount as the last totals run returned it
    csv_was_modified,  \* whether the last totals run rewrote the CSV
    runs,              \* completed program runs
    \* transaction extraction (chase_analysis.py, real_chase_analysis.py,
    \* utils/extract_correct_order.py, utils/interim_chase_analysis.py)
    all_transactions,  \* the list the extractor returned; each transaction
                       \* remembers the number of its statement line
    pended,            \* the lines appended to pending_transactions
    cardholder_at,     \* the lines that were assigned to current_cardholder
    extracted,         \* whether the extractor has returned
    \* a run of main() of chase_analysis.py
    args,              \* --master, --csv and --summary-only
    pdf_files,         \* the PDF files still to process
    master_at_start,   \* the master file as main() found it
    outputs,           \* what each processed statement was given
    csv_disk,          \* the transaction CSV files written
    summary_disk,      \* the category summary files written
    console,           \* the lines display_results printed
    \* a call of categorize_transaction
    called,            \* its arguments merchant and amount, or None
    returned           \* the category it returned, "" before it has

vars_an == << pdf_file, transactions, statement_previous_balance,
              statement_new_balance, statement_purchase_total,
              statement_payment_total, verification, category_table >>

vars_det == << lines, format_type >>

vars_ms == << impl, master_disk, loaded_rules, master_categories,
              new_vendors, statement_txns, categorized, auto_balance,
              csv_total, csv_was_modified, runs >>

vars_ex == << all_transactions, pended, cardholder_at, extracted >>

vars_run == << args, pdf_files, master_at_start, outputs, csv_disk,
               summary_disk, console >>

vars_cat == << called, returned >>

vars == << vars_an, vars_det, vars_ms, vars_ex, vars_run, vars_cat >>

\* What each component leaves alone.
rest_an == << vars_det, vars_ms, vars_ex, vars_run, vars_cat >>
rest_det == << vars_an, vars_ms, vars_ex, vars_run, vars_cat >>
rest_ms == << vars_an, vars_det, vars_ex, vars_run, vars_cat >>

\* Python's None where a dict is expected, and where a path is expected
None == [ none |-> TRUE ]
NoPath == << >>

\* The state of each component before it has run.
InitAnalyzer ==
    /\ pdf_file = NoPath
    /\ transactions = << >>
    /\ statement_previous_balance = 0
    /\ statement_new_balance = 0
    /\ statement_purchase_total = 0
    /\ statement_payment_total = 0
    /\ verification = None
    /\ category_table = None

InitDetect == lines = << >> /\ format_type = ""

\* The master file: there is none (os.path.exists(master_file) is False), or
\* it holds a header and rows.
NoFile == [ exists |-> FALSE, rows |-> << >> ]
File(rows) == [ exists |-> TRUE, rows |-> rows ]

IdleMaster ==
    /\ impl = "enhanced"
    /\ master_disk = NoFile
    /\ loaded_rules = << >>
    /\ master_categories = << >>
    /\ new_vendors = {}
    /\ statement_txns = << >>
    /\ categorized = << >>
    /\ auto_balance = FALSE
    /\ csv_total = None
    /\ csv_was_modified = FALSE
    /\ runs = 0

IdleExtract ==
    /\ all_transactions = << >>
    /\ pended = {}
    /\ cardholder_at = {}
    /\ extracted = FALSE

IdleRun ==
    /\ args = [ master |-> FALSE, csv |-> FALSE, summary_only |-> FALSE ]
    /\ pdf_files = << >>
    /\ master_at_start = NoFile
    /\ outputs = << >>
    /\ csv_disk = {}
    /\ summary_disk = {}
    /\ console = << >>

IdleCategorize == called = None /\ returned = ""

\* The initial states of each specification.
AnalyzerStart ==
    InitAnalyzer /\ InitDetect /\ IdleMaster /\ IdleExtract /\ IdleRun
    /\ IdleCategorize
DetectStart ==
    InitDetect /\ InitAnalyzer /\ IdleMaster /\ IdleExtract /\ IdleRun
    /\ IdleCategorize

-----------------------------------------------------------------------------
(* Generic helpers *)

Abs(x) == IF x < 0 THEN -x ELSE x

Range(s) == { s[i] : i \in 1..Len(s) }

\* All sequences over S of length at most n.
SeqUpTo(S, n) == UNION { [1..k -> S] : k \in 0..n }

\* Python `p in s` for strings, on texts as chunk sequences.
Contains(p, s) ==
    \E i \in 0..(Len(s) - Len(p)) : SubSeq(s, i + 1, i + Len(p)) = p

RECURSIVE SumAmounts(_)
\* sum(txn['amount'] for txn in txns)
SumAmounts(txns) ==
    IF txns = << >> THEN 0
    ELSE txns[1].amount + SumAmounts(Tail(txns))

\* [t for t in txns if P(t)]
RECURSIVE SelectTxns(_, _)
SelectTxns(txns, types) ==
    IF txns = << >> THEN << >>
    ELSE IF txns[1].type \in types
         THEN << txns[1] >> \o SelectTxns(Tail(txns), types)
         ELSE SelectTxns(Tail(txns), types)

-----------------------------------------------------------------------------
(* Program constants, in cents *)

MatchTolerance == 1        \* abs(...) < 0.01
MiscLimit == 30000         \* abs(diff) <= 300.0

(* Bounds of the model *)

MaxTxns == 2               \* transactions per statement
MaxDetectLines == 3        \* statement lines after the padding lines

-----------------------------------------------------------------------------
(* Texts *)

\* str.upper() of one chunk: the chunks that contain lower-case letters.
Upper(c) ==
    CASE c = "Purchase"                   -> "PURCHASE"
      [] c = "s"                          -> "S"
      [] c = "and"                        -> "AND"
      [] c = "Other"                      -> "OTHER"
      [] c = "Credits"                    -> "CREDITS"
      [] c = "Adjustments"                -> "ADJUSTMENTS"
      [] c = "Date"                       -> "DATE"
      [] c = "of"                         -> "OF"
      [] c = "Transaction"                -> "TRANSACTION"
      [] c = "This"                       -> "THIS"
      [] c = "Cycle"                      -> "CYCLE"
      [] c = "Account"                    -> "ACCOUNT"
      [] c = "Number"                     -> "NUMBER"
      [] c = "Fee"                        -> "FEE"
      [] c = "Charged"                    -> "CHARGED"
      [] c = "Interest"                   -> "INTEREST"
      [] c = "Ashok"                      -> "ASHOK"
      [] c = "Raj"                        -> "RAJ"
      [] c = "payment"                    -> "PAYMENT"
      [] c = "Payment"                    -> "PAYMENT"
      [] c = "thank you"                  -> "THANK YOU"
      [] c = "Thank You"                  -> "THANK YOU"
      [] c = "amazon"                     -> "AMAZON"
      [] c = "Amazon"                     -> "AMAZON"
      [] c = "Amzn"                       -> "AMZN"
      [] c = "costco"                     -> "COSTCO"
      [] c = "Costco"                     -> "COSTCO"
      [] c = "whse"                       -> "WHSE"
      [] c = "shell"                      -> "SHELL"
      [] c = "Target"                     -> "TARGET"
      [] c = "CLR*StretchLab"             -> "CLR*STRETCHLAB"
      [] c = "Saela"                      -> "SAELA"
      [] c = "Pest"                       -> "PEST"
      [] c = "Control"                    -> "CONTROL"
      [] c = "CVSExtraCare"               -> "CVSEXTRACARE"
      [] OTHER                            -> c

\* str.lower() of one chunk.
Lower(c) ==
    CASE Upper(c) = "PAYMENT"   -> "payment"
      [] Upper(c) = "THANK YOU" -> "thank you"
      [] Upper(c) = "AMAZON"    -> "amazon"
      [] Upper(c) = "AMZN"      -> "amzn"
      [] Upper(c) = "COSTCO"    -> "costco"
      [] Upper(c) = "WHSE"      -> "whse"
      [] OTHER                  -> c

UpperText(s) == [ i \in 1..Len(s) |-> Upper(s[i]) ]
LowerText(s) == [ i \in 1..Len(s) |-> Lower(s[i]) ]

\* '\n'.join(ls)
RECURSIVE JoinLines(_)
JoinLines(ls) ==
    IF ls = << >> THEN << >>
    ELSE IF Len(ls) = 1 THEN ls[1]
    ELSE ls[1] \o << "\n" >> \o JoinLines(Tail(ls))


-----------------------------------------------------------------------------
(* Inputs of the reconciliation model *)

\* File paths, as chunk sequences; the code only asks which account suffix
\* a path contains.
PathSamples ==
    { << "8635" >>, << "1250" >>, << "0801" >>, << "5136" >>,
      << "8635", "-", "1250" >>, << "statement" >> }

TxnTypes == { "Purchase", "Fee", "Credit" }

\* Extracted transactions as far as reconciliation reads them.
TxnSamples ==
    { [ type |-> "Purchase", amount |-> 1000,  category |-> "OTHER" ],
      [ type |-> "Purchase", amount |-> 1000,  category |-> "MISC" ],
      [ type |-> "Fee",      amount |-> 35000, category |-> "CC FEES" ],
      [ type |-> "Credit",   amount |-> -999,  category |-> "OTHER" ] }

BalanceSamples == { 1000, 1001, 2000, 36000 }
PurchaseTotalSamples == { 1000, 2000 }
PreviousBalanceSamples == { 0, 500 }

-----------------------------------------------------------------------------
(* EnhancedChaseStatementAnalyzer.verify_totals *)

VerifyTotalsBroken(path, txns, purchase_total, new_balance, payment_total) ==
    \* mutant: the 8635 branch compares against the new balance as well
    LET calculated_total_all == SumAmounts(txns)
    IN  [ purchase_total_calculated |-> calculated_total_all,
          purchase_total_statement  |-> new_balance,
          purchase_match |->
              Abs(calculated_total_all - new_balance) < MatchTolerance,
          payment_total_calculated |-> 0,
          payment_total_statement  |-> payment_total,
          payment_match |-> TRUE,
          total_transactions |-> Len(txns),
          purchase_count |-> Len(SelectTxns(txns, { "Purchase" })),
          payment_count |-> 0,
          all_transactions_total |-> calculated_total_all ]

VerifyTotals(path, txns, purchase_total, new_balance, payment_total) ==
    LET calculated_total_all == SumAmounts(txns)
        calculated_purchases_only ==
            SumAmounts(SelectTxns(txns, { "Purchase" }))
        is8635 == Contains(<< "8635" >>, path)
        comparison_total ==
            IF is8635 THEN calculated_purchases_only
            ELSE calculated_total_all      \* 1250 and 5136/0801 branches
        statement_comparison ==
            IF is8635 THEN purchase_total ELSE new_balance
        balance_match ==
            Abs(comparison_total - statement_comparison) < MatchTolerance
    IN  [ purchase_total_calculated |-> comparison_total,
          purchase_total_statement  |-> statement_comparison,
          purchase_match |-> balance_match,
          payment_total_calculated |-> 0,
          payment_total_statement  |-> payment_total,
          payment_match |-> TRUE,
          total_transactions |-> Len(txns),
          purchase_count |-> Len(SelectTxns(txns, { "Purchase" })),
          payment_count |-> 0,
          all_transactions_total |-> calculated_total_all ]

-----------------------------------------------------------------------------
(* EnhancedChaseStatementAnalyzer.display_category_table and              *)
(* _display_adjusted_category_table                                        *)

\* category_stats: category -> {count, amount}
CategoryStats(txns) ==
    [ c \in { txns[i].category : i \in 1..Len(txns) } |->
        LET of_c == { i \in 1..Len(txns) : txns[i].category = c }
            RECURSIVE Amt(_)
            Amt(S) == IF S = {} THEN 0
                      ELSE LET i == CHOOSE j \in S : TRUE
                           IN  txns[i].amount + Amt(S \ { i })
        IN  [ count |-> Cardinality(of_c), amount |-> Amt(of_c) ] ]

\* sum(stats['amount'] for _, stats in sorted_categories)
RECURSIVE StatsTotalOver(_, _)
StatsTotalOver(stats, cats) ==
    IF cats = {} THEN 0
    ELSE LET c == CHOOSE x \in cats : TRUE
         IN  stats[c].amount + StatsTotalOver(stats, cats \ { c })

StatsTotal(stats) == StatsTotalOver(stats, DOMAIN stats)

\* category_stats['MISC'] = {'count': 1, 'amount': diff}
WithMisc(stats, diff) ==
    [ c \in (DOMAIN stats) \cup { "MISC" } |->
        IF c = "MISC" THEN [ count |-> 1, amount |-> diff ] ELSE stats[c] ]

\* The statement figure the category sum is compared with.
StatementComparisonAmount(path, total_amount, previous_balance, new_balance) ==
    IF Contains(<< "8635" >>, path)
    THEN LET net_change == new_balance - previous_balance
             payment_amount == total_amount - net_change
         IN  net_change + payment_amount
    ELSE new_balance                  \* 1250 and 5136/0801 branches

\* _display_adjusted_category_table: the adjusted sum and its verdict
DisplayAdjustedCategoryTable(category_stats, statement_total) ==
    LET total_amount == StatsTotal(category_stats)
    IN  [ stats |-> category_stats,
          total_amount |-> total_amount,
          match |-> Abs(total_amount - statement_total) < MatchTolerance ]

DisplayCategoryTable(path, txns, previous_balance, new_balance) ==
    IF txns = << >> THEN None
    ELSE
      LET category_stats == CategoryStats(txns)
          total_amount == StatsTotal(category_stats)
          statement_comparison_amount ==
              StatementComparisonAmount(path, total_amount,
                                        previous_balance, new_balance)
          diff == statement_comparison_amount - total_amount
          adjust == ~(Abs(diff) < MatchTolerance) /\ Abs(diff) <= MiscLimit
      IN  [ category_stats |-> category_stats,
            total_amount |-> total_amount,
            statement_comparison_amount |-> statement_comparison_amount,
            match |-> Abs(diff) < MatchTolerance,
            adjusted |->
              IF adjust
              THEN DisplayAdjustedCategoryTable(
                       WithMisc(category_stats, diff),
                       statement_comparison_amount)
              ELSE None ]

-----------------------------------------------------------------------------
(* EnhancedChaseStatementAnalyzer.process_pdf_file, from the parsed        *)
(* summary figures and the extracted transactions on                       *)

\* main() creates one analyzer per file and calls process_pdf_file once on it.
ProcessPdfFile(path, txns, prev, newb, ptotal) ==
    /\ pdf_file = NoPath
    /\ pdf_file' = path
    \* Step 2: parse_statement_summary
    /\ statement_previous_balance' = prev
    /\ statement_new_balance' = newb
    /\ statement_purchase_total' = ptotal
    /\ statement_payment_total' = statement_payment_total
    /\ IF txns = << >>
       THEN \* Step 3: "No transactions found in PDF", return None
            /\ UNCHANGED transactions
            /\ verification' = None
            /\ category_table' = None
       ELSE \* Steps 5-7
            /\ transactions' = txns
            /\ verification' =
                 VerifyTotals(path, txns, ptotal, newb, statement_payment_total)
            /\ category_table' = DisplayCategoryTable(path, txns, prev, newb)
    /\ UNCHANGED rest_an

NextAnalyzer ==
    \E path \in PathSamples, txns \in SeqUpTo(TxnSamples, MaxTxns),
       prev \in PreviousBalanceSamples, newb \in BalanceSamples,
       ptotal \in PurchaseTotalSamples :
         ProcessPdfFile(path, txns, prev, newb, ptotal)

SpecAnalyzer == AnalyzerStart /\ [][NextAnalyzer]_vars

-----------------------------------------------------------------------------
-----------------------------------------------------------------------------
(* C5: in display_category_table, when the category sum differs from the   *)
(* statement comparison amount by at least 0.01 and at most 300.00, one    *)
(* MISC entry (count 1, amount = statement amount - category sum) is added *)
(* and the adjusted category sum equals the statement comparison amount,   *)
(* whatever the categories of the transactions; when the difference        *)
(* exceeds 300.00 no adjustment is made.                                   *)
C5_MiscAdjustmentBalances ==
    category_table # None =>
      LET stmt == category_table.statement_comparison_amount
          diff == stmt - SumAmounts(transactions)
      IN  /\ (1 <= Abs(diff) /\ Abs(diff) <= 30000) =>
                /\ category_table.adjusted # None
                /\ category_table.adjusted.stats["MISC"]
                     = [ count |-> 1, amount |-> diff ]
                /\ category_table.adjusted.total_amount = stmt
          /\ Abs(diff) > 30000 => category_table.adjusted = None

-----------------------------------------------------------------------------
(* EnhancedChaseStatementAnalyzer.detect_statement_format *)

SampleWindow == 50         \* sample_lines = lines[:50]

Formats == { "5136", "0801", "8635", "1250" }

\* The suffix an 'Account Number:' line selects: the if/elif chain.
AccountSuffix(line) ==
    IF Contains(<< "5136" >>, line) THEN "5136"
    ELSE IF Contains(<< "0801" >>, line) THEN "0801"
    ELSE IF Contains(<< "8635" >>, line) THEN "8635"
    ELSE IF Contains(<< "1250" >>, line) THEN "1250"
    ELSE ""

\* The for loop over sample_lines, from line i on; "" when it falls through.
RECURSIVE AccountScan(_, _)
AccountScan(sample_lines, i) ==
    IF i > Len(sample_lines) THEN ""
    ELSE IF /\ Contains(<< "Account", " ", "Number", ":" >>, sample_lines[i])
            /\ AccountSuffix(sample_lines[i]) # ""
         THEN AccountSuffix(sample_lines[i])
         ELSE AccountScan(sample_lines, i + 1)

\* The "old detection method"
KeywordFallback(sample_lines) ==
    LET sample_text == UpperText(JoinLines(sample_lines))
    IN  IF /\ Contains(<< "PAYMENT", "S", " ", "AND", " ", "OTHER", " ", "CREDITS" >>, sample_text)
           /\ Contains(<< "PURCHASE" >>, sample_text)
        THEN "8635"
        ELSE IF Contains(<< "DATE", " ", "OF", " ", "TRANSACTION" >>, sample_text)
        THEN "5136"
        ELSE IF Contains(<< "TRANSACTION", "S", " ", "THIS", " ", "CYCLE" >>,
                         sample_text)
        THEN "0801"
        ELSE "5136"

DetectKeywordsFirst(ls) ==
    \* mutant: the keyword method is consulted before the account number
    LET sample_lines == SubSeq(ls, 1, IF Len(ls) < SampleWindow
                                      THEN Len(ls) ELSE SampleWindow)
        sample_text == UpperText(JoinLines(sample_lines))
    IN  IF /\ Contains(<< "PAYMENT", "S", " ", "AND", " ", "OTHER", " ", "CREDITS" >>, sample_text)
           /\ Contains(<< "PURCHASE" >>, sample_text)
        THEN "8635"
        ELSE IF AccountScan(sample_lines, 1) # ""
        THEN AccountScan(sample_lines, 1)
        ELSE KeywordFallback(sample_lines)

DetectStatementFormat(ls) ==
    LET sample_lines == SubSeq(ls, 1, IF Len(ls) < SampleWindow
                                      THEN Len(ls) ELSE SampleWindow)
        by_account == AccountScan(sample_lines, 1)
    IN  IF by_account # "" THEN by_account
        ELSE KeywordFallback(sample_lines)

\* Statement lines for format detection.
DetectLineSamples ==
    { << "Account", " ", "Number", ":", " ", "XXXX", " ", "0801" >>,
      << "Account", " ", "Number", ":", " ", "1250", " ", "5136" >>,
      << "Account", " ", "Number", ":", " ", "XXXX" >>,
      << "Account", " ", "Number", ":", "8635" >>,
      << "Payment", "s", " ", "and", " ", "Other", " ", "Credits" >>,
      << "Purchase", "S" >>,
      << "Transaction", "s", " ", "This", " ", "Cycle", " ", "(", "CARD",
         " ", "1250", ")" >>,
      << "Date", " ", "of", " ", "Transaction" >> }

Filler == << "Manage your account online" >>

\* How many filler lines precede the sampled lines.
PadSamples == { 0, SampleWindow - 2, SampleWindow - 1, SampleWindow }

\* extract_transactions_from_pdf up to format detection
DetectFormat(pad, tail) ==
    /\ lines = << >>
    /\ tail # << >>
    /\ lines' = [ i \in 1..pad |-> Filler ] \o tail
    /\ format_type' = DetectStatementFormat(lines')
    /\ UNCHANGED rest_det

NextDetect ==
    \E pad \in PadSamples, tail \in SeqUpTo(DetectLineSamples, MaxDetectLines) :
        DetectFormat(pad, tail)

SpecDetect == DetectStart /\ [][NextDetect]_vars

-----------------------------------------------------------------------------
(* C2: detect_statement_format returns one of the four formats; when one   *)
(* of the first 50 lines contains 'Account Number:' with one of the four   *)
(* suffixes the result is the suffix of the first such line (5136, 0801,   *)
(* 8635, 1250 in that order), whatever section keywords the text holds;    *)
(* the keyword fallback (8635, then 5136, then 0801, default 5136) decides *)
(* only when there is no such line.                                        *)
C2_HasSuffix(line, f) == Contains(<< f >>, line)

C2_AccountLines ==
    { i \in 1..Len(lines) :
        /\ i <= 50
        /\ Contains(<< "Account", " ", "Number", ":" >>, lines[i])
        /\ \E f \in Formats : C2_HasSuffix(lines[i], f) }

C2_Keyword(k) ==
    \E i \in 1..Len(lines) :
        i <= 50 /\ Contains(k, UpperText(lines[i]))

C2_DetectFormat ==
    format_type # "" =>
      /\ format_type \in Formats
      /\ IF C2_AccountLines # {}
         THEN LET first == CHOOSE i \in C2_AccountLines :
                              \A j \in C2_AccountLines : i <= j
              IN  format_type =
                    IF C2_HasSuffix(lines[first], "5136") THEN "5136"
                    ELSE IF C2_HasSuffix(lines[first], "0801") THEN "0801"
                    ELSE IF C2_HasSuffix(lines[first], "8635") THEN "8635"
                    ELSE "1250"
         ELSE format_type =
                IF /\ C2_Keyword(<< "PAYMENT", "S", " ", "AND", " ", "OTHER",
                                  " ", "CREDITS" >>)
                   /\ C2_Keyword(<< "PURCHASE" >>)
                THEN "8635"
                ELSE IF C2_Keyword(<< "DATE", " ", "OF", " ",
                                      "TRANSACTION" >>)
                THEN "5136"
                ELSE IF C2_Keyword(<< "TRANSACTION", "S", " ", "THIS", " ",
                                      "CYCLE" >>)
                THEN "0801"
                ELSE "5136"

\* An account line decides against the section keywords of an 8635 layout.
C2_Witness ==
    /\ format_type = "0801"
    /\ C2_AccountLines # {}
    /\ C2_Keyword(<< "PAYMENT", "S", " ", "AND", " ", "OTHER", " ",
                     "CREDITS" >>)
    /\ C2_Keyword(<< "PURCHASE" >>)

-----------------------------------------------------------------------------
(* Merchant texts and the vendor key                                       *)
(*                                                                         *)
(* A merchant is a sequence of words and " " chunks (one chunk per space   *)
(* character).  The lexical classes below are the ones the regular         *)
(* expressions of extract_vendor_key ask about, for the chunks the         *)
(* merchants of the model are made of.  No chunk is a prefix of another,   *)
(* so comparing chunk by chunk orders texts as Python orders strings.      *)

IsSpace(c) == c = " "
StartsWithDigit(c) == c \in { "0483", "619-566-0096" }           \* \d+
IsDigits(c) == c \in { "0483" }                                  \* isdigit()
IsPhone(c) == c \in { "619-566-0096" }              \* \d{3}-\d{3}-\d{4}
IsStoreNumber(c) == c \in { "#0483" }                            \* #\d+
StartsWithCompanySuffix(c) == c \in { "COSTCO" }         \* (LLC|INC|CORP|CO)
IsStateCode(c) == c \in { "CA", "IN" }                           \* [A-Z]{2}
IsShortWord(c) == c \in { "CA", "IN" }                  \* not len(part) > 2

\* merchant.split()
Words(s) == SelectSeq(s, LAMBDA c : ~IsSpace(c))

\* ' '.join(ws)
RECURSIVE JoinWords(_)
JoinWords(ws) ==
    IF ws = << >> THEN << >>
    ELSE IF Len(ws) = 1 THEN << ws[1] >>
    ELSE << ws[1], " " >> \o JoinWords(Tail(ws))

\* str.strip()
RECURSIVE Strip(_)
Strip(s) ==
    IF s = << >> THEN s
    ELSE IF IsSpace(s[1]) THEN Strip(Tail(s))
    ELSE IF IsSpace(s[Len(s)]) THEN Strip(SubSeq(s, 1, Len(s) - 1))
    ELSE s

\* Where the run of spaces that ends just before position i starts.
RECURSIVE RunStart(_, _)
RunStart(s, i) ==
    IF i > 1 /\ IsSpace(s[i - 1]) THEN RunStart(s, i - 1) ELSE i

\* re.sub(r'\s+<P>.*$', '', s): cut at the leftmost run of spaces that is
\* followed by a chunk of class P.
CutAtFirst(s, P(_)) ==
    LET hits == { i \in 2..Len(s) : IsSpace(s[i - 1]) /\ P(s[i]) }
    IN  IF hits = {} THEN s
        ELSE LET i == CHOOSE h \in hits : \A g \in hits : h <= g
             IN  SubSeq(s, 1, RunStart(s, i) - 1)

\* re.sub(r'\s+[A-Z]{2}$', '', s)
CutStateCode(s) ==
    IF Len(s) >= 2 /\ IsStateCode(s[Len(s)]) /\ IsSpace(s[Len(s) - 1])
    THEN SubSeq(s, 1, RunStart(s, Len(s)) - 1)
    ELSE s

HasAmazon(merchant_upper) ==
    \/ Contains(<< "AMAZON" >>, merchant_upper)
    \/ Contains(<< "AMZN" >>, merchant_upper)

\* EnhancedChaseStatementAnalyzer.extract_vendor_key
ExtractVendorKeyEnhanced(merchant) ==
    LET m  == UpperText(merchant)
        c1 == CutAtFirst(m, StartsWithDigit)
        c2 == CutAtFirst(c1, StartsWithCompanySuffix)
        c3 == CutAtFirst(c2, IsStoreNumber)
        c4 == CutAtFirst(c3, IsPhone)
        cleaned == CutStateCode(c4)
        words == Words(cleaned)
    IN  IF Len(words) >= 2 THEN << words[1], " ", words[2] >>
        ELSE IF Len(words) = 1 THEN << words[1] >>
        ELSE m                       \* merchant[:20]

\* The key_parts loop over parts[:3].
RECURSIVE KeyParts(_, _, _)
KeyParts(parts, i, key_parts) ==
    IF i > 3 \/ i > Len(parts) THEN key_parts
    ELSE LET kp == IF ~IsShortWord(parts[i]) /\ ~IsDigits(parts[i])
                   THEN Append(key_parts, parts[i]) ELSE key_parts
         IN  IF Len(kp) >= 2 THEN kp ELSE KeyParts(parts, i + 1, kp)

\* RealChaseStatementAnalyzer.extract_vendor_key and
\* category_totals.extract_vendor_key (the same code)
ExtractVendorKeyReal(merchant) ==
    LET m  == UpperText(merchant)
        c1 == CutAtFirst(m, IsPhone)
        c2 == CutStateCode(c1)
        c3 == CutAtFirst(c2, IsStoreNumber)
        c4 == CutAtFirst(c3, StartsWithDigit)
        parts == Words(c4)
        key_parts == KeyParts(parts, 1, << >>)
    IN  IF HasAmazon(m) THEN << "AMAZON" >>
        ELSE IF Len(parts) > 3
        THEN Strip(IF key_parts # << >> THEN JoinWords(key_parts)
                   ELSE << parts[1] >>)
        ELSE Strip(c4)

\* Merchants of the model.
MerchantSamples ==
    { << "JACK", " ", "IN", " ", "THE", " ", "BOX", " ", "0483" >>,
      << "COSTCO", " ", " ", "WHSE", " ", "#0483" >>,
      << "costco", " ", "whse" >>,
      << "Amazon", " ", "MKTP" >>,
      << "AMZN", " ", "MKTP" >>,
      << "SHELL", " ", "OIL", " ", "619-566-0096", " ", "CA" >>,
      << "LATE", " ", "FEE" >> }

-----------------------------------------------------------------------------
(* Master categorization: the master file, the rules and the three        *)
(* recategorize_transaction implementations                                *)

\* The chunks of the model's merchants and patterns in Python's string
\* order (code points: ' ' < '#' < digits < upper case < lower case).
ChunkOrder ==
    << " ", "#0483", "0483", "619-566-0096", "ADJUSTMENT", "AMAZON", "AMZN",
       "Amazon", "Amzn", "BALANCE", "BOX", "CA", "COSTCO", "Costco", "FEE",
       "IN", "JACK", "LATE", "MISC", "MKTP", "OIL", "SHELL", "STORE", "THE",
       "UBER", "WHSE",
       "amazon", "costco", "whse" >>

ChunkRank(c) == CHOOSE i \in 1..Len(ChunkOrder) : ChunkOrder[i] = c

\* a < b for Python strings
RECURSIVE TextLess(_, _)
TextLess(a, b) ==
    IF a = << >> THEN b # << >>
    ELSE IF b = << >> THEN FALSE
    ELSE IF a[1] = b[1] THEN TextLess(Tail(a), Tail(b))
    ELSE ChunkRank(a[1]) < ChunkRank(b[1])

\* len(c) of a chunk
ChunkLen(c) ==
    CASE c = " " -> 1
      [] c \in { "CA", "IN" } -> 2
      [] c \in { "BOX", "FEE", "OIL", "THE" } -> 3
      [] c \in { "0483", "AMZN", "Amzn", "JACK", "LATE", "MISC", "MKTP",
                 "WHSE", "whse" } -> 4
      [] c \in { "#0483", "SHELL" } -> 5
      [] c \in { "AMAZON", "Amazon", "amazon", "COSTCO", "Costco",
                 "costco" } -> 6
      [] c \in { "S", "s", "$", ":", "(", ")" } -> 1
      [] c \in { "MR", "CR", "of" } -> 2
      [] c \in { "RAJ", "Raj", "AND", "and", "Fee" } -> 3
      [] c \in { "UBER", "THIS", "This", "0996", "1250", "0801", "5136",
                 "8635", "XXXX", "Date", "CARD" } -> 4
      [] c \in { "01/05", "01/06", "01/07", "01/08", "10.00", "20.00",
                 "35.00", "STORE", "ASHOK", "Ashok", "BONUS", "CYCLE",
                 "Cycle", "OTHER", "Other" } -> 5
      [] c \in { "-10.00", "Number" } -> 6
      [] c \in { "BALANCE", "PAYMENT", "Payment", "payment", "SUMATHI",
                 "-500.00", "CREDITS", "Credits", "CHARGED", "Charged",
                 "Account" } -> 7
      [] c \in { "PURCHASE", "Purchase", "INTEREST", "Interest",
                 "RECEIVED" } -> 8
      [] c \in { "AUTOMATIC", "Thank You", "thank you", "INCLUDING" } -> 9
      [] c \in { "ADJUSTMENT", "ELECTRONIC" } -> 10
      [] c \in { "TRANSACTION", "Transaction", "Adjustments" } -> 11
      [] c = "619-566-0096" -> 12

\* len(s)
RECURSIVE TextLen(_)
TextLen(s) == IF s = << >> THEN 0 ELSE ChunkLen(s[1]) + TextLen(Tail(s))

\* A dict from pattern to category is the sequence of its items in
\* insertion order.
DictHas(d, k) == \E i \in 1..Len(d) : d[i].pattern = k

DictGet(d, k) == d[CHOOSE i \in 1..Len(d) : d[i].pattern = k].category

\* d[k] = v
DictSet(d, k, v) ==
    IF DictHas(d, k)
    THEN [ i \in 1..Len(d) |->
             IF d[i].pattern = k THEN [ pattern |-> k, category |-> v ]
             ELSE d[i] ]
    ELSE Append(d, [ pattern |-> k, category |-> v ])

\* The rows of the file as the dict the DictReader loop builds.
RECURSIVE ReadRows(_, _)
ReadRows(rows, d) ==
    IF rows = << >> THEN d
    ELSE ReadRows(Tail(rows),
                  DictSet(d, Strip(rows[1].pattern), rows[1].category))

\* A master file whose reading raises: its header lacks the vendor_pattern
\* column, a row has no category, or its bytes are not UTF-8.
Unparsable(rows) == [ exists |-> TRUE, rows |-> rows, parses |-> FALSE ]

IsUnparsable(disk) == "parses" \in DOMAIN disk

\* load_master_categories: the dict it returns; `except Exception` returns {}
LoadMasterCategories(disk) ==
    IF ~disk.exists \/ IsUnparsable(disk) THEN << >>
    ELSE ReadRows(disk.rows, << >>)

\* load_master_categories: the file it leaves (a header-only file is created
\* when there was none)
DiskAfterLoad(disk) == IF ~disk.exists THEN File(<< >>) ELSE disk

\* mutant: the items are written in the order of the dict
SaveMasterCategoriesUnsorted(d) == File(d)

\* save_master_categories: the rows it writes, sorted(master_categories.items())
SaveMasterCategories(d) ==
    LET n == Len(d)
        pos(i) == 1 + Cardinality({ j \in 1..n :
                                      TextLess(d[j].pattern, d[i].pattern) })
    IN  File([ k \in 1..n |-> d[CHOOSE i \in 1..n : pos(i) = k] ])

\* EnhancedChaseStatementAnalyzer.categorize_transaction, the keywords that
\* occur in the model's merchants
CategorizeEnhanced(merchant) ==
    LET merchant_upper == UpperText(merchant)
    IN  IF Contains(<< "SHELL" >>, merchant_upper) THEN "GAS/FUEL"
        ELSE IF Contains(<< "COSTCO", " ", "WHSE" >>, merchant_upper)
        THEN "GROCERY"
        ELSE IF HasAmazon(merchant_upper) THEN "SHOPPING"
        ELSE "OTHER"

\* RealChaseStatementAnalyzer.categorize_transaction, likewise
CategorizeReal(merchant) ==
    LET merchant_upper == UpperText(merchant)
    IN  IF Contains(<< "COSTCO" >>, merchant_upper) THEN "GROCERY"
        ELSE IF Contains(<< "SHELL" >>, merchant_upper) THEN "GAS/FUEL"
        ELSE IF Contains(<< "AMAZON" >>, merchant_upper) THEN "SHOPPING"
        ELSE "OTHER"

\* No rule decided the category.
NoRule == << "no rule" >>

\* What recategorize_transaction returns (category, is_new_vendor), what it
\* adds to new_vendors, and the pattern of the rule that decided.
Recategorized(category, is_new_vendor, added, rule) ==
    [ category |-> category, is_new_vendor |-> is_new_vendor,
      added |-> added, rule |-> rule ]

\* The Amazon branch, the same in the three implementations.
RecategorizeAmazon(mc) ==
    IF ~DictHas(mc, << "AMAZON" >>)
    THEN Recategorized("MAINTENANCE", TRUE,
                       { << << "AMAZON" >>, "MAINTENANCE" >> }, NoRule)
    ELSE Recategorized(DictGet(mc, << "AMAZON" >>), FALSE, {},
                       << "AMAZON" >>)

\* The loop of chase_analysis.py: the index of best_match, 0 for None.
RECURSIVE BestMatch(_, _, _, _)
BestMatch(mc, i, merchant_upper, best) ==
    IF i > Len(mc) THEN best
    ELSE IF /\ Contains(UpperText(mc[i].pattern), merchant_upper)
            /\ TextLen(mc[i].pattern) >
                 (IF best = 0 THEN 0 ELSE TextLen(mc[best].pattern))
         THEN BestMatch(mc, i + 1, merchant_upper, i)
         ELSE BestMatch(mc, i + 1, merchant_upper, best)

\* The loop of real_chase_analysis.py and category_totals.py: the index of
\* the first pattern that matches, 0 if none does.
FirstMatch(mc, merchant_upper) ==
    LET hits == { i \in 1..Len(mc) :
                    Contains(UpperText(mc[i].pattern), merchant_upper) }
    IN  IF hits = {} THEN 0
        ELSE CHOOSE i \in hits : \A j \in hits : i <= j

RecategorizeFirstMatch(merchant, original_category, mc) ==
    \* mutant: chase_analysis.py takes the first match, not the longest
    LET merchant_upper == UpperText(merchant)
        first == FirstMatch(mc, merchant_upper)
    IN  IF HasAmazon(merchant_upper) THEN RecategorizeAmazon(mc)
        ELSE IF first # 0 /\ mc[first].pattern # << >>
        THEN Recategorized(mc[first].category, FALSE, {}, mc[first].pattern)
        ELSE Recategorized(original_category, TRUE,
               { << ExtractVendorKeyEnhanced(merchant), original_category >> },
               NoRule)

\* EnhancedChaseStatementAnalyzer.recategorize_transaction, interactive=False
RecategorizeEnhanced(merchant, original_category, mc) ==
    LET vendor_key == ExtractVendorKeyEnhanced(merchant)
        merchant_upper == UpperText(merchant)
        best == BestMatch(mc, 1, merchant_upper, 0)
    IN  IF HasAmazon(merchant_upper) THEN RecategorizeAmazon(mc)
        ELSE IF best # 0
        THEN Recategorized(mc[best].category, FALSE, {}, mc[best].pattern)
        ELSE Recategorized(original_category, TRUE,
                           { << vendor_key, original_category >> }, NoRule)

RecategorizeCaseSensitive(merchant, original_category, mc) ==
    \* mutant: the pattern is compared with the merchant as written
    LET hits == { i \in 1..Len(mc) : Contains(mc[i].pattern, merchant) }
        first == IF hits = {} THEN 0
                 ELSE CHOOSE i \in hits : \A j \in hits : i <= j
    IN  IF HasAmazon(UpperText(merchant)) THEN RecategorizeAmazon(mc)
        ELSE IF first # 0
        THEN Recategorized(mc[first].category, FALSE, {}, mc[first].pattern)
        ELSE Recategorized(original_category, TRUE,
               { << ExtractVendorKeyReal(merchant), original_category >> },
               NoRule)

\* RealChaseStatementAnalyzer.recategorize_transaction and
\* category_totals.recategorize_transaction (the same code)
RecategorizeReal(merchant, original_category, mc) ==
    LET vendor_key == ExtractVendorKeyReal(merchant)
        merchant_upper == UpperText(merchant)
        first == FirstMatch(mc, merchant_upper)
    IN  IF HasAmazon(merchant_upper) THEN RecategorizeAmazon(mc)
        ELSE IF first # 0
        THEN Recategorized(mc[first].category, FALSE, {}, mc[first].pattern)
        ELSE Recategorized(original_category, TRUE,
                           { << vendor_key, original_category >> }, NoRule)

-----------------------------------------------------------------------------
(* binary64: the floats of category_totals.py                              *)
(*                                                                         *)
(* A float is its sign and its magnitude, the magnitude an exact multiple  *)
(* of 2^-60 held as a little-endian sequence of 15-bit limbs.  Every       *)
(* double of magnitude at least 2^-8 is such a multiple, so the parsed     *)
(* amounts (whole cents) and their sums are represented exactly; each      *)
(* operation rounds its exact result to a 53-bit significand, ties to      *)
(* even, as the hardware does.                                             *)

LimbBits == 15
Limbs == 7
FracBits == 60
Significand == 53

Base == 2 ^ LimbBits

BigZero == [ i \in 1..Limbs |-> 0 ]

\* 2^n
BigPow2(n) ==
    [ i \in 1..Limbs |-> IF i - 1 = n \div LimbBits
                         THEN 2 ^ (n % LimbBits) ELSE 0 ]

RECURSIVE Carry(_, _, _)
Carry(a, b, i) ==
    IF i = 0 THEN 0 ELSE (a[i] + b[i] + Carry(a, b, i - 1)) \div Base

BigAdd(a, b) ==
    [ i \in 1..Limbs |-> (a[i] + b[i] + Carry(a, b, i - 1)) % Base ]

RECURSIVE Borrow(_, _, _)
Borrow(a, b, i) ==
    IF i = 0 THEN 0
    ELSE IF a[i] - b[i] - Borrow(a, b, i - 1) < 0 THEN 1 ELSE 0

\* a - b, for a >= b
BigSub(a, b) ==
    [ i \in 1..Limbs |-> (Base + a[i] - b[i] - Borrow(a, b, i - 1)) % Base ]

BigLess(a, b) ==
    \E i \in 1..Limbs : a[i] < b[i] /\ \A j \in (i + 1)..Limbs : a[j] = b[j]

\* The position of the highest set bit, -1 for zero.
TopBit(a) ==
    IF a = BigZero THEN -1
    ELSE LET i == CHOOSE k \in 1..Limbs :
                     a[k] # 0 /\ \A j \in (k + 1)..Limbs : a[j] = 0
             b == CHOOSE k \in 0..(LimbBits - 1) :
                     2 ^ k <= a[i] /\ a[i] < 2 ^ (k + 1)
         IN  (i - 1) * LimbBits + b

Bit(a, n) == (a[(n \div LimbBits) + 1] \div (2 ^ (n % LimbBits))) % 2

\* No bit below position n is set.
LowZero(a, n) ==
    /\ \A i \in 1..(n \div LimbBits) : a[i] = 0
    /\ a[(n \div LimbBits) + 1] % (2 ^ (n % LimbBits)) = 0

\* a with the bits below position n cleared
ClearLow(a, n) ==
    [ i \in 1..Limbs |->
        IF i - 1 < n \div LimbBits THEN 0
        ELSE IF i - 1 = n \div LimbBits
        THEN a[i] - (a[i] % (2 ^ (n % LimbBits)))
        ELSE a[i] ]

\* Round the exact magnitude a (plus a positive fraction of the unit when
\* sticky) to 53 significant bits, ties to even.
RoundNearestEven(a, sticky) ==
    LET p == TopBit(a) - (Significand - 1)
    IN  IF p <= 0 THEN a
        ELSE LET guard == Bit(a, p - 1) = 1
                 rest == ~LowZero(a, p - 1) \/ sticky
                 odd == Bit(a, p) = 1
             IN  IF guard /\ (rest \/ odd)
                 THEN BigAdd(ClearLow(a, p), BigPow2(p))
                 ELSE ClearLow(a, p)

\* The remainder that enters limb i of a long division by the small d.
RECURSIVE DivRem(_, _, _)
DivRem(a, d, i) ==
    IF i > Limbs THEN 0 ELSE (DivRem(a, d, i + 1) * Base + a[i]) % d

BigDivSmall(a, d) ==
    [ i \in 1..Limbs |-> (DivRem(a, d, i + 1) * Base + a[i]) \div d ]

RECURSIVE MulCarry(_, _, _)
MulCarry(a, m, i) ==
    IF i = 0 THEN 0 ELSE (a[i] * m + MulCarry(a, m, i - 1)) \div Base

BigMulSmall(a, m) ==
    [ i \in 1..Limbs |-> (a[i] * m + MulCarry(a, m, i - 1)) % Base ]

\* The whole number n as a magnitude
BigWhole(n) ==
    [ i \in 1..Limbs |->
        LET k == i - 1 - (FracBits \div LimbBits)
        IN  IF k < 0 THEN 0 ELSE (n \div (Base ^ k)) % Base ]

\* The whole part of a magnitude, as a number
WholePart(a) ==
    LET w == FracBits \div LimbBits
    IN  a[w + 1] + (Base * a[w + 2])

\* An amount as the text of a CSV cell: sign and cents ("-0.30").
Amount(neg, cents) == [ neg |-> neg, cents |-> cents ]

\* float(row['amount'])
Float(text) ==
    LET exact == BigWhole(text.cents)
    IN  [ neg |-> text.neg,
          mag |-> RoundNearestEven(BigDivSmall(exact, 100),
                                   DivRem(exact, 100, 1) # 0) ]

\* 0, the start of a running total
FloatZero == [ neg |-> FALSE, mag |-> BigZero ]

\* x + y
FloatAdd(x, y) ==
    IF x.neg = y.neg
    THEN [ neg |-> x.neg, mag |-> RoundNearestEven(BigAdd(x.mag, y.mag), FALSE) ]
    ELSE IF x.mag = y.mag THEN FloatZero
    ELSE IF BigLess(x.mag, y.mag)
    THEN [ neg |-> y.neg, mag |-> RoundNearestEven(BigSub(y.mag, x.mag), FALSE) ]
    ELSE [ neg |-> x.neg, mag |-> RoundNearestEven(BigSub(x.mag, y.mag), FALSE) ]

\* -x
FloatNeg(x) == [ neg |-> ~x.neg, mag |-> x.mag ]

\* f"{x:.2f}"
Format2(x) ==
    LET scaled == BigMulSmall(x.mag, 100)
        cents == WholePart(scaled)
        guard == Bit(scaled, FracBits - 1) = 1
        rest == ~LowZero(scaled, FracBits - 1)
        odd == cents % 2 = 1
    IN  Amount(x.neg, IF guard /\ (rest \/ odd) THEN cents + 1 ELSE cents)

\* 0 < abs(x) < tolerance, for the whole number of units tolerance
SmallNonZero(x, tolerance) ==
    x.mag # BigZero /\ BigLess(x.mag, BigWhole(tolerance))

\* total_amount = 0; for txn in transactions: total_amount += txn['amount']
RECURSIVE FloatSum(_, _)
FloatSum(rows, total) ==
    IF rows = << >> THEN total
    ELSE FloatSum(Tail(rows), FloatAdd(total, Float(rows[1].amount)))

-----------------------------------------------------------------------------
(* Master categorization: the three programs                               *)
(*                                                                         *)
(* A run is one execution of a program with a master file: the analyzers   *)
(* extract and categorize the statement's transactions anew and call       *)
(* apply_master_categorization, category_totals.py reads the rows of the   *)
(* CSV file.  The master file and the CSV file persist between runs.       *)

Impls == { "enhanced", "real", "totals" }

MaxMasterTxns == 2
MaxCsvRows == 3
MaxRuns == 2

\* tolerance=1.00
BalanceTolerance == 1

Rule(pattern, category) == [ pattern |-> pattern, category |-> category ]

\* Master files as the user may have left them.
MasterDiskSamples ==
    { NoFile,
      File(<< >>),
      File(<< Rule(<< "amazon" >>, "HOUSEHOLD"),
              Rule(<< "costco" >>, "WHOLESALE") >>),
      File(<< Rule(<< "COSTCO", " " >>, "WHOLESALE"),
              Rule(<< "COSTCO", " ", "WHSE" >>, "GROCERIES") >>),
      File(<< Rule(<< >>, "JUNK"), Rule(<< "AMAZON" >>, "BOOKS") >>),
      File(<< Rule(<< "BOX" >>, "FOOD"), Rule(<< "JACK" >>, "DINING") >>),
      File(<< Rule(<< "THE" >>, "ARTICLE"), Rule(<< "BOX" >>, "FOOD"),
              Rule(<< "AMZN" >>, "BOOKS"), Rule(<< "LATE" >>, "PENALTY") >>) }

Txn(cardholder, merchant, amount, type, category) ==
    [ cardholder |-> cardholder, merchant |-> merchant, amount |-> amount,
      type |-> type, category |-> category ]

\* The transactions of a statement as each program receives them: purchases
\* with the category of categorize_transaction, fees as the extractors of
\* chase_analysis.py emit them; the CSV rows are the export of such a list.
MasterTxnSamples(i) ==
    IF i = "real"
    THEN { Txn("ASHOK RAJ", m, Amount(FALSE, 1000), "Purchase",
               CategorizeReal(m)) : m \in MerchantSamples }
    ELSE { Txn("ASHOK RAJ", m, Amount(FALSE, 1000), "Purchase",
               CategorizeEnhanced(m)) : m \in MerchantSamples }
         \cup { Txn("ASHOK RAJ", << "LATE", " ", "FEE" >>,
                    Amount(FALSE, 1000), "Fee", "CC FEES") }

CsvAmountSamples ==
    { Amount(FALSE, 10), Amount(FALSE, 20), Amount(TRUE, 30),
      Amount(FALSE, 70), Amount(TRUE, 100), Amount(FALSE, 1000) }

CsvRowSamples ==
    { Txn("ASHOK RAJ", << "SHELL", " ", "OIL" >>, a, "Purchase", "GAS/FUEL") :
        a \in CsvAmountSamples }

\* txn['original_category'] = original_category; txn['category'] = ...
Categorized(txns, results) ==
    [ i \in 1..Len(txns) |->
        [ cardholder |-> txns[i].cardholder, merchant |-> txns[i].merchant,
          amount |-> txns[i].amount, type |-> txns[i].type,
          original_category |-> txns[i].category,
          category |-> results[i].category,
          is_new_vendor |-> results[i].is_new_vendor,
          rule |-> results[i].rule ] ]

NewVendors(results) == UNION { results[i].added : i \in 1..Len(results) }

\* `for vendor_key, category in new_vendors: master_categories[vendor_key] =
\* category` iterates a set of tuples in hash order: for a key that occurs
\* with several categories any of them may be written last.
LastWrites(nv) ==
    { f \in [ { p[1] : p \in nv } -> { p[2] : p \in nv } ] :
        \A k \in DOMAIN f : << k, f[k] >> \in nv }

SortedTexts(S) ==
    LET pos(k) == 1 + Cardinality({ j \in S : TextLess(j, k) })
    IN  [ i \in 1..Cardinality(S) |-> CHOOSE k \in S : pos(k) = i ]

\* The dict after the writes; the order in which new keys enter it is not
\* observed (the file is written sorted), they are entered in sorted order.
RECURSIVE AddVendors(_, _, _)
AddVendors(mc, keys, last) ==
    IF keys = << >> THEN mc
    ELSE AddVendors(DictSet(mc, keys[1], last[keys[1]]), Tail(keys), last)

\* "Add new vendors to master file", the same in the three programs
UpdateMaster(mc, nv) ==
    /\ loaded_rules' = mc
    /\ new_vendors' = nv
    /\ IF nv = {}
       THEN /\ master_categories' = mc
            /\ master_disk' = DiskAfterLoad(master_disk)
       ELSE \E last \in LastWrites(nv) :
               /\ master_categories' =
                     AddVendors(mc, SortedTexts(DOMAIN last), last)
               /\ master_disk' = SaveMasterCategories(master_categories')

\* EnhancedChaseStatementAnalyzer.apply_master_categorization,
\* interactive=False, master_file set
ApplyMasterCategorizationEnhanced ==
    /\ impl = "enhanced"
    /\ runs < MaxRuns
    /\ LET mc == LoadMasterCategories(master_disk)
           results ==
             [ i \in 1..Len(statement_txns) |->
                 LET txn == statement_txns[i]
                 IN  IF txn.type = "Fee" /\ txn.category = "CC FEES"
                     THEN Recategorized("CC FEES", FALSE, {}, NoRule)
                     ELSE RecategorizeEnhanced(txn.merchant, txn.category, mc) ]
       IN  /\ UpdateMaster(mc, NewVendors(results))
           /\ categorized' = Categorized(statement_txns, results)
    /\ runs' = runs + 1
    /\ UNCHANGED << impl, statement_txns, auto_balance, csv_total,
                    csv_was_modified >>
    /\ UNCHANGED rest_ms

\* RealChaseStatementAnalyzer.apply_master_categorization, master_file set
ApplyMasterCategorizationReal ==
    /\ impl = "real"
    /\ runs < MaxRuns
    /\ LET mc == LoadMasterCategories(master_disk)
           results ==
             [ i \in 1..Len(statement_txns) |->
                 RecategorizeReal(statement_txns[i].merchant,
                                  statement_txns[i].category, mc) ]
       IN  /\ UpdateMaster(mc, NewVendors(results))
           /\ categorized' = Categorized(statement_txns, results)
    /\ runs' = runs + 1
    /\ UNCHANGED << impl, statement_txns, auto_balance, csv_total,
                    csv_was_modified >>
    /\ UNCHANGED rest_ms

\* add_misc_balancing_entry: the row it appends
MiscEntry(difference_amount) ==
    Txn("SYSTEM", << "MISC", " ", "BALANCE", " ", "ADJUSTMENT" >>,
        Format2(difference_amount), "Adjustment", "MISCELLANEOUS")

\* category_totals.calculate_category_totals with check_and_balance_csv and
\* add_misc_balancing_entry, on an existing CSV file
CalculateCategoryTotals ==
    /\ impl = "totals"
    /\ runs < MaxRuns
    /\ LET mc == LoadMasterCategories(master_disk)
           results ==
             [ i \in 1..Len(statement_txns) |->
                 RecategorizeReal(statement_txns[i].merchant,
                                  statement_txns[i].category, mc) ]
           total == FloatSum(statement_txns, FloatZero)
           modified == auto_balance /\ SmallNonZero(total, BalanceTolerance)
           updated == Append(statement_txns, MiscEntry(FloatNeg(total)))
       IN  /\ UpdateMaster(mc, NewVendors(results))
           /\ csv_was_modified' = modified
           /\ IF modified
              THEN /\ statement_txns' = updated
                   /\ categorized' =
                        Categorized(updated,
                          [ i \in 1..Len(updated) |->
                              RecategorizeReal(updated[i].merchant,
                                               updated[i].category,
                                               master_categories') ])
                   /\ csv_total' = FloatSum(updated, FloatZero)
              ELSE /\ statement_txns' = statement_txns
                   /\ categorized' = Categorized(statement_txns, results)
                   /\ csv_total' = total
    /\ runs' = runs + 1
    /\ UNCHANGED << impl, auto_balance >>
    /\ UNCHANGED rest_ms

\* A statement (or its CSV export, processed with --no-balance or in
\* directory mode) and a master file, given to one of the three programs.
MasterStart ==
    /\ InitAnalyzer
    /\ InitDetect
    /\ IdleExtract
    /\ IdleRun
    /\ IdleCategorize
    /\ impl \in Impls
    /\ master_disk \in MasterDiskSamples
    /\ statement_txns \in SeqUpTo(MasterTxnSamples(impl), MaxMasterTxns)
    /\ loaded_rules = << >>
    /\ master_categories = << >>
    /\ new_vendors = {}
    /\ categorized = << >>
    /\ auto_balance = FALSE
    /\ csv_total = None
    /\ csv_was_modified = FALSE
    /\ runs = 0

NextMaster ==
    \/ ApplyMasterCategorizationEnhanced
    \/ ApplyMasterCategorizationReal
    \/ CalculateCategoryTotals

SpecMaster == MasterStart /\ [][NextMaster]_vars

\* A CSV file given to category_totals.py, with or without --no-balance.
BalanceStart ==
    /\ InitAnalyzer
    /\ InitDetect
    /\ IdleExtract
    /\ IdleRun
    /\ IdleCategorize
    /\ impl = "totals"
    /\ master_disk = NoFile
    /\ statement_txns \in SeqUpTo(CsvRowSamples, MaxCsvRows)
    /\ loaded_rules = << >>
    /\ master_categories = << >>
    /\ new_vendors = {}
    /\ categorized = << >>
    /\ auto_balance \in BOOLEAN
    /\ csv_total = None
    /\ csv_was_modified = FALSE
    /\ runs = 0

NextBalance == CalculateCategoryTotals

SpecBalance == BalanceStart /\ [][NextBalance]_vars

-----------------------------------------------------------------------------
(* Claims about master categorization                                      *)

\* The loaded rules whose pattern is a case-insensitive substring of m.
MatchingRules(m) ==
    { j \in 1..Len(loaded_rules) :
        Contains(UpperText(loaded_rules[j].pattern), UpperText(m)) }

\* The transaction is a fee that apply_master_categorization of
\* chase_analysis.py leaves alone.
KeptFee(t) ==
    impl = "enhanced" /\ t.type = "Fee" /\ t.original_category = "CC FEES"

(* C3, as stated: after apply_master_categorization (non-interactive, with *)
(* a master file) every transaction carries original_category equal to    *)
(* its built-in category, and category equal to the category of a         *)
(* matching master rule if one matches its merchant and to the built-in   *)
(* category otherwise.                                                     *)
C3_RuleElseBuiltIn ==
    (runs > 0 /\ impl \in { "enhanced", "real" }) =>
      \A i \in 1..Len(categorized) :
        LET t == categorized[i]
            hits == MatchingRules(t.merchant)
        IN  /\ t.original_category = statement_txns[i].category
            /\ IF hits # {}
               THEN \E j \in hits : t.category = loaded_rules[j].category
               ELSE t.category = t.original_category

\* The rule that decides for a merchant without AMAZON or AMZN in
\* chase_analysis.py: the longest non-empty matching pattern, the first in
\* file order among equally long ones; 0 if there is none.
C3_Longest(m) ==
    LET hits == { j \in MatchingRules(m) : loaded_rules[j].pattern # << >> }
    IN  IF hits = {} THEN 0
        ELSE CHOOSE j \in hits :
               \A k \in hits :
                 \/ TextLen(loaded_rules[k].pattern)
                      < TextLen(loaded_rules[j].pattern)
                 \/ /\ TextLen(loaded_rules[k].pattern)
                         = TextLen(loaded_rules[j].pattern)
                    /\ j <= k

\* The rule that decides in real_chase_analysis.py: the first matching one
\* in file order; 0 if there is none.
C3_First(m) ==
    IF MatchingRules(m) = {} THEN 0
    ELSE CHOOSE j \in MatchingRules(m) : \A k \in MatchingRules(m) : j <= k

(* C3, amended: original_category is the built-in category.  A merchant    *)
(* containing AMAZON or AMZN gets the category of the rule whose pattern   *)
(* is exactly 'AMAZON', or MAINTENANCE if there is no such rule.  Any      *)
(* other merchant gets the category of the deciding matching rule (longest *)
(* non-empty pattern in chase_analysis.py, first in file order in          *)
(* real_chase_analysis.py) and keeps its built-in category if none         *)
(* matches.  In chase_analysis.py a Fee with category CC FEES keeps it.    *)
C3_Amended ==
    (runs > 0 /\ impl \in { "enhanced", "real" }) =>
      \A i \in 1..Len(categorized) :
        LET t == categorized[i]
            j == IF impl = "enhanced" THEN C3_Longest(t.merchant)
                 ELSE C3_First(t.merchant)
        IN  /\ t.original_category = statement_txns[i].category
            /\ t.category =
                 IF KeptFee(t) THEN "CC FEES"
                 ELSE IF HasAmazon(UpperText(t.merchant))
                 THEN IF \E k \in 1..Len(loaded_rules) :
                           loaded_rules[k].pattern = << "AMAZON" >>
                      THEN loaded_rules[CHOOSE k \in 1..Len(loaded_rules) :
                             loaded_rules[k].pattern = << "AMAZON" >>].category
                      ELSE "MAINTENANCE"
                 ELSE IF j # 0 THEN loaded_rules[j].category
                 ELSE t.original_category

\* chase_analysis.py has overridden a built-in category where two rules of
\* different categories match the merchant.
C3_Witness ==
    /\ runs > 0
    /\ impl = "enhanced"
    /\ \E i \in 1..Len(categorized) :
         /\ categorized[i].category # categorized[i].original_category
         /\ \E j, k \in MatchingRules(categorized[i].merchant) :
              /\ loaded_rules[j].category # loaded_rules[k].category
              /\ loaded_rules[j].pattern # << >>
              /\ loaded_rules[k].pattern # << >>

(* C4, as stated: in every recategorize_transaction a master rule decides  *)
(* a transaction's category only if its pattern, compared without regard   *)
(* to case, is a substring of the merchant; and a pattern that differs     *)
(* from the merchant only in case matches.                                 *)
C4_OnlySubstringDecides ==
    runs > 0 =>
      \A i \in 1..Len(categorized) :
        LET t == categorized[i]
        IN  ~KeptFee(t) =>
              /\ t.rule # NoRule =>
                   Contains(UpperText(t.rule), UpperText(t.merchant))
              /\ (\E j \in 1..Len(loaded_rules) :
                    UpperText(loaded_rules[j].pattern) = UpperText(t.merchant))
                 => t.rule # NoRule

(* C4, amended: for a merchant without AMAZON or AMZN a rule decides only  *)
(* if its pattern is a case-insensitive substring of the merchant (and, in *)
(* chase_analysis.py, non-empty), and a pattern that differs from the      *)
(* merchant only in case matches.  For a merchant with AMAZON or AMZN the  *)
(* only rule that can decide is the one whose pattern is exactly 'AMAZON', *)
(* and it decides whenever it exists, substring or not.                    *)
C4_Amended ==
    runs > 0 =>
      \A i \in 1..Len(categorized) :
        LET t == categorized[i]
        IN  ~KeptFee(t) =>
              IF HasAmazon(UpperText(t.merchant))
              THEN t.rule = IF \E j \in 1..Len(loaded_rules) :
                                 loaded_rules[j].pattern = << "AMAZON" >>
                            THEN << "AMAZON" >> ELSE NoRule
              ELSE /\ t.rule # NoRule =>
                        /\ Contains(UpperText(t.rule), UpperText(t.merchant))
                        /\ impl = "enhanced" => t.rule # << >>
                   /\ (\E j \in 1..Len(loaded_rules) :
                         UpperText(loaded_rules[j].pattern)
                           = UpperText(t.merchant))
                      => t.rule # NoRule

\* A rule decided whose pattern is a substring of the merchant only when
\* case is disregarded.
C4_Witness ==
    /\ runs > 0
    /\ \E i \in 1..Len(categorized) :
         /\ ~HasAmazon(UpperText(categorized[i].merchant))
         /\ categorized[i].rule # NoRule
         /\ ~Contains(categorized[i].rule, categorized[i].merchant)
         /\ Contains(UpperText(categorized[i].rule),
                     UpperText(categorized[i].merchant))

(* C10: after a first run has saved the master file, a second run over the *)
(* same transactions with that file matches every merchant with an         *)
(* existing rule, finds no new vendors and leaves the master file          *)
(* unchanged.                                                              *)
C10_SecondRunFindsNothing ==
    [][ (runs = 1 /\ runs' = 2) =>
          /\ new_vendors' = {}
          /\ master_disk' = master_disk
          /\ \A i \in 1..Len(categorized') :
               ~categorized'[i].is_new_vendor ]_vars

-----------------------------------------------------------------------------
(* Claims about CSV balancing                                              *)

\* The sum of the amounts of the rows, in cents.
RECURSIVE CentsSum(_)
CentsSum(rows) ==
    IF rows = << >> THEN 0
    ELSE (IF rows[1].amount.neg THEN -rows[1].amount.cents
          ELSE rows[1].amount.cents) + CentsSum(Tail(rows))

(* C6: calculate_category_totals rewrites the CSV only when auto-balancing *)
(* is on and the sum of the amounts is non-zero with magnitude below 1.00; *)
(* it then appends exactly one row (SYSTEM, 'MISC BALANCE ADJUSTMENT',     *)
(* MISCELLANEOUS) whose amount is the negated sum, after which the amounts *)
(* sum to zero and a further run appends nothing; with auto-balancing off  *)
(* the CSV is left unchanged.                                              *)
C6_BalancesOnce ==
    [][ runs' = runs + 1 =>
          LET sum == CentsSum(statement_txns)
              small == sum # 0 /\ Abs(sum) < 100 * BalanceTolerance
          IN  /\ statement_txns' # statement_txns => auto_balance /\ small
              /\ (auto_balance /\ small) =>
                   /\ Len(statement_txns') = Len(statement_txns) + 1
                   /\ SubSeq(statement_txns', 1, Len(statement_txns))
                        = statement_txns
                   /\ LET row == statement_txns'[Len(statement_txns')]
                      IN  /\ row.cardholder = "SYSTEM"
                          /\ row.merchant =
                               << "MISC", " ", "BALANCE", " ", "ADJUSTMENT" >>
                          /\ row.category = "MISCELLANEOUS"
                          /\ row.amount = Amount(sum > 0, Abs(sum))
                   /\ CentsSum(statement_txns') = 0
              /\ csv_was_modified => statement_txns' = statement_txns
      ]_vars

-----------------------------------------------------------------------------
(* Transaction extraction: statement lines                                 *)
(*                                                                         *)
(* The lexical classes of the chunks statement lines are made of, as the   *)
(* regular expressions of the extractors ask about them.                   *)

IsDate(c) == c \in { "01/05", "01/06", "01/07", "01/08" }     \* \d{2}/\d{2}

\* [-]?\d{1,3}(?:,\d{3})*\.?\d{0,2}: also a run of up to five digits
IsAmountText(c) ==
    c \in { "10.00", "20.00", "35.00", "-10.00", "-500.00", "0996", "1250",
            "0801", "5136", "8635" }

IsRefNumber(c) == c \in { "0996", "1250" }                    \* \d+
IsFourDigits(c) == c \in { "0996", "1250" }                   \* \d{4}

\* [A-Z]+
IsUpperWord(c) ==
    c \in { "ASHOK", "SUMATHI", "RAJ", "MR", "STORE", "SHELL", "OIL", "UBER",
            "AUTOMATIC", "ELECTRONIC", "PAYMENT", "BONUS", "LATE", "FEE",
            "S", "TRANSACTION", "THIS", "CYCLE", "PURCHASE", "AND", "OTHER",
            "CREDITS", "CHARGED", "INTEREST", "INCLUDING", "RECEIVED",
            "XXXX", "CARD", "CR" }

\* amount_str.replace('$', '').replace(',', ''), as sign and cents
AmountOf(c) ==
    CASE c = "10.00"   -> Amount(FALSE, 1000)
      [] c = "20.00"   -> Amount(FALSE, 2000)
      [] c = "35.00"   -> Amount(FALSE, 3500)
      [] c = "-10.00"  -> Amount(TRUE, 1000)
      [] c = "-500.00" -> Amount(TRUE, 50000)
      [] c = "0996"    -> Amount(FALSE, 99600)
      [] c = "1250"    -> Amount(FALSE, 125000)
      [] c = "0801"    -> Amount(FALSE, 80100)
      [] c = "5136"    -> Amount(FALSE, 513600)
      [] c = "8635"    -> Amount(FALSE, 863500)

\* float(amount_str) < 0
IsNegative(amount) == amount.neg /\ amount.cents # 0

\* any(k in s for k in ks)
ContainsAny(ks, s) == \E k \in ks : Contains(k, s)

\* What re.match(pattern, line) yields: whether it matched, group(2) or
\* group(3) stripped, and the amount.
NoMatch == [ matched |-> FALSE, merchant |-> << >>, amount |-> Amount(FALSE, 0) ]
Match(merchant, amount) ==
    [ matched |-> TRUE, merchant |-> merchant, amount |-> amount ]

\* ^(\d{2}/\d{2})\s+(.+?)\s+([-]?\d{1,3}(?:,\d{3})*\.?\d{0,2})$
MatchPlain(line) ==
    LET n == Len(line)
    IN  IF /\ n >= 5
           /\ IsDate(line[1]) /\ IsSpace(line[2])
           /\ IsSpace(line[n - 1]) /\ IsAmountText(line[n])
        THEN Match(Strip(SubSeq(line, 3, n - 2)), AmountOf(line[n]))
        ELSE NoMatch

\* ^(\d{2}/\d{2})\s+(.+?)\s+\$?([-]?\d{1,3}(?:,\d{3})*\.?\d{0,2})$
MatchDollar(line) ==
    LET n == Len(line)
    IN  IF MatchPlain(line).matched THEN MatchPlain(line)
        ELSE IF /\ n >= 6
                /\ IsDate(line[1]) /\ IsSpace(line[2])
                /\ IsSpace(line[n - 2]) /\ line[n - 1] = "$"
                /\ IsAmountText(line[n])
        THEN Match(Strip(SubSeq(line, 3, n - 3)), AmountOf(line[n]))
        ELSE NoMatch

IsPaymentThankYouOnly(merchant) ==
    \* mutant: only 'thank you' marks a payment
    Contains(<< "thank you" >>, LowerText(merchant))

\* 'payment' in merchant.lower() or 'thank you' in merchant.lower()
IsPayment(merchant) ==
    \/ Contains(<< "payment" >>, LowerText(merchant))
    \/ Contains(<< "thank you" >>, LowerText(merchant))

\* len(merchant) < 3 or merchant.upper() in ['TOTAL', 'SUBTOTAL']
IsTooShortOrTotal(merchant) ==
    \/ TextLen(merchant) < 3
    \/ UpperText(merchant) \in { << "TOTAL" >>, << "SUBTOTAL" >> }

\* An emitted transaction; line is the number of its statement line.
Extracted(line, cardholder, merchant, amount, type, category) ==
    [ line |-> line, cardholder |-> cardholder, merchant |-> merchant,
      amount |-> amount, type |-> type, category |-> category ]

\* An entry of pending_transactions
Pending(line, merchant, amount) ==
    [ line |-> line, merchant |-> merchant, amount |-> amount ]

\* current_cardholder = None
NoCardholder == << >>

-----------------------------------------------------------------------------
(* extract_0801_format_transactions                                        *)

Headers0801 ==
    { << "ACCOUNT", " ", "SUMMARY" >>, << "PREVIOUS", " ", "BALANCE" >>,
      << "PAYMENT", "S" >>, << "PURCHASE", "S" >>,
      << "BALANCE", " ", "TRANSFERS" >>, << "CASH", " ", "ADVANCES" >>,
      << "FEE", "S", " ", "CHARGED" >>, << "INTEREST", " ", "CHARGED" >>,
      << "NEW", " ", "BALANCE" >>,
      << "MINIMUM", " ", "PAYMENT", " ", "DUE" >>,
      << "PAYMENT", " ", "DUE", " ", "DATE" >> }

Sections0801 ==
    { << "TRANSACTION", "S", " ", "THIS", " ", "CYCLE" >>, << "FEE", "S" >>,
      << "INTEREST" >> }

\* re.match(r'^[A-Z][A-Z\s]+ RAJ$', line) and 'ACCOUNT' not in line
IsCardholder0801(line) ==
    LET n == Len(line)
    IN  /\ n >= 3
        /\ line[n] = "RAJ" /\ IsSpace(line[n - 1])
        /\ \A i \in 1..n : IsUpperWord(line[i]) \/ IsSpace(line[i])
        /\ ~IsSpace(line[1])
        /\ TextLen(SubSeq(line, 1, n - 2)) >= 2
        /\ ~Contains(<< "ACCOUNT" >>, line)

\* The transactions made of pending_transactions for a cardholder.
EmitPending0801(pending, cardholder) ==
    [ k \in 1..Len(pending) |->
        Extracted(pending[k].line, cardholder, pending[k].merchant,
                  pending[k].amount, "Purchase",
                  CategorizeEnhanced(pending[k].merchant)) ]

Start0801 ==
    [ all_transactions |-> << >>, current_cardholder |-> NoCardholder,
      pending_transactions |-> << >>, pended |-> {}, cardholder_at |-> {} ]

\* One pass of the for loop, for line number i.  The branch for
\* 'TRANSACTIONS THIS CYCLE' followed by a transaction is never entered: the
\* section test before it skips every such line.
Step0801(st, i, raw) ==
    LET line == Strip(raw)
        m == MatchDollar(line)
    IN  IF line = << >> THEN st
        ELSE IF ContainsAny(Headers0801, UpperText(line)) THEN st
        ELSE IF IsCardholder0801(line)
        THEN [ st EXCEPT
                 !.all_transactions =
                     IF /\ st.pending_transactions # << >>
                        /\ st.current_cardholder # NoCardholder
                     THEN @ \o EmitPending0801(st.pending_transactions,
                                               st.current_cardholder)
                     ELSE @,
                 !.current_cardholder = line,
                 !.pending_transactions = << >>,
                 !.cardholder_at = @ \cup { i } ]
        ELSE IF ContainsAny(Sections0801, UpperText(line)) THEN st
        ELSE IF /\ m.matched
                /\ ~IsTooShortOrTotal(m.merchant)
                /\ ~(IsNegative(m.amount) \/ IsPayment(m.merchant))
        THEN [ st EXCEPT
                 !.pending_transactions =
                     Append(@, Pending(i, m.merchant, m.amount)),
                 !.pended = @ \cup { i } ]
        ELSE st

RECURSIVE Loop0801(_, _, _)
Loop0801(ls, i, st) ==
    IF i > Len(ls) THEN st
    ELSE Loop0801(ls, i + 1, Step0801(st, i, ls[i]))

\* extract_0801_format_transactions(lines)
Extract0801FormatTransactions(ls) ==
    LET st == Loop0801(ls, 1, Start0801)
    IN  [ st EXCEPT
            !.all_transactions =
                IF /\ st.pending_transactions # << >>
                   /\ st.current_cardholder # NoCardholder
                THEN @ \o EmitPending0801(st.pending_transactions,
                                          st.current_cardholder)
                ELSE @ ]

-----------------------------------------------------------------------------
(* extract_5136_format_transactions                                        *)

\* merchant.upper().split()[0]
RECURSIVE FirstWord(_)
FirstWord(s) ==
    IF s = << >> \/ IsSpace(s[1]) THEN << >>
    ELSE << s[1] >> \o FirstWord(Tail(s))

\* The second pass of the 5136 and 1250 extractors: whether a purchase of
\* the same amount whose merchant holds the credit's first word was emitted.
HasOffsettingPurchase(credit, emitted) ==
    \E k \in 1..Len(emitted) :
        /\ emitted[k].type = "Purchase"
        /\ emitted[k].amount.cents = credit.amount.cents
        /\ LET credit_base == FirstWord(UpperText(credit.merchant))
           IN  /\ credit_base # << >>
               /\ Contains(credit_base, UpperText(emitted[k].merchant))

IncludeCredits(emitted, credits_to_include) ==
    emitted \o SelectSeq(credits_to_include,
                         LAMBDA credit : ~HasOffsettingPurchase(credit, emitted))

SkipPatterns5136 ==
    { << "Date", " ", "of" >>, << "Transaction" >>,
      << "Merchant", " ", "Name" >>, << "$", " ", "Amount" >>,
      << "Account", " ", "Summary" >>, << "Previous", " ", "Balance" >>,
      << "New", " ", "Balance" >>, << "Minimum", " ", "Payment" >>,
      << "Payment", " ", "Due" >>, << "Interest" >>,
      << "ACCOUNT", " ", "SUMMARY" >>, << "PREVIOUS", " ", "BALANCE" >>,
      << "NEW", " ", "BALANCE" >> }

Start5136 ==
    [ all_transactions |-> << >>, credits_to_include |-> << >>,
      in_fees_section |-> FALSE, in_credits_section |-> FALSE ]

\* One pass of the first loop, for line number i.
Step5136(st, i, raw) ==
    LET line == Strip(raw)
        upper == UpperText(line)
        m == MatchPlain(line)
        current_cardholder == << "SUMATHI", " ", "RAJ" >>
    IN  IF line = << >> THEN st
        ELSE IF Contains(<< "FEE", "S", " ", "CHARGED" >>, upper)
        THEN [ st EXCEPT !.in_fees_section = TRUE ]
        ELSE IF /\ st.in_fees_section
                /\ \/ Contains(<< "INTEREST", " ", "CHARGES" >>, upper)
                   \/ Contains(<< "TOTAL", " ", "FEE", "S", " ", "FOR", " ",
                                  "THIS", " ", "PERIOD" >>, upper)
        THEN [ st EXCEPT !.in_fees_section = FALSE ]
        ELSE IF Contains(<< "PAYMENT", "S", " ", "AND", " ", "OTHER", " ",
                            "CREDITS" >>, upper)
        THEN [ st EXCEPT !.in_credits_section = TRUE ]
        ELSE IF /\ st.in_credits_section
                /\ \/ Contains(<< "PURCHASE" >>, upper)
                   \/ Contains(<< "TOTAL", " ", "CREDITS" >>, upper)
                   \/ Contains(<< "INTEREST", " ", "CHARGES" >>, upper)
        THEN [ st EXCEPT !.in_credits_section = FALSE ]
        ELSE IF \/ ContainsAny(SkipPatterns5136, line)
                \/ Contains(<< "TOTAL", " ", "FEE", "S" >>, upper)
        THEN st
        ELSE IF ~m.matched THEN st
        ELSE IF \/ TextLen(m.merchant) < 3
                \/ UpperText(m.merchant) \in
                     { << "TOTAL" >>, << "SUBTOTAL" >>, << "BALANCE" >> }
        THEN st
        ELSE IF st.in_credits_section
        THEN IF IsNegative(m.amount) /\ ~IsPayment(m.merchant)
             THEN [ st EXCEPT !.credits_to_include =
                        Append(@, Extracted(i, current_cardholder, m.merchant,
                                            m.amount, "Credit",
                                            CategorizeEnhanced(m.merchant))) ]
             ELSE st
        ELSE IF IsNegative(m.amount) \/ IsPayment(m.merchant) THEN st
        ELSE [ st EXCEPT !.all_transactions =
                 Append(@, IF st.in_fees_section
                           THEN Extracted(i, current_cardholder, m.merchant,
                                          m.amount, "Fee", "CC FEES")
                           ELSE Extracted(i, current_cardholder, m.merchant,
                                          m.amount, "Purchase",
                                          CategorizeEnhanced(m.merchant))) ]

RECURSIVE Loop5136(_, _, _)
Loop5136(ls, i, st) ==
    IF i > Len(ls) THEN st
    ELSE Loop5136(ls, i + 1, Step5136(st, i, ls[i]))

\* extract_5136_format_transactions(lines)
Extract5136FormatTransactions(ls) ==
    LET st == Loop5136(ls, 1, Start5136)
    IN  IncludeCredits(st.all_transactions, st.credits_to_include)

-----------------------------------------------------------------------------
(* extract_8635_format_transactions                                        *)

SkipPatterns8635 ==
    { << "Date", " ", "of" >>, << "Transaction" >>,
      << "Merchant", " ", "Name" >>, << "$", " ", "Amount" >>,
      << "ACCOUNT", " ", "SUMMARY" >>, << "ACCOUNT", " ", "ACTIVITY" >>,
      << "INTEREST", " ", "CHARGES" >>,
      << "Annual", " ", "Percentage", " ", "Rate" >>,
      << "Balance", " ", "Type" >>, << "Year-to-date", " ", "totals" >>,
      << "Total", " ", "fees", " ", "charged" >>,
      << "Total", " ", "interest", " ", "charged" >>,
      << "TOTAL", " ", "FEE", "S", " ", "FOR", " ", "THIS", " ", "PERIOD" >>,
      << "TOTAL", " ", "INTEREST", " ", "FOR", " ", "THIS", " ", "PERIOD" >> }

\* The four in_..._section flags: at most one is set, "" when none is.
Start8635 == [ all_transactions |-> << >>, section |-> "" ]

\* One pass of the loop, for line number i.
Step8635(st, i, raw) ==
    LET line == Strip(raw)
        upper == UpperText(line)
        m == MatchDollar(line)
        current_cardholder == << "ASHOK", " ", "RAJ" >>
    IN  IF line = << >> THEN st
        ELSE IF Contains(<< "PAYMENT", "S", " ", "AND", " ", "OTHER", " ",
                            "CREDITS" >>, upper)
        THEN [ st EXCEPT !.section = "payments" ]
        ELSE IF /\ Contains(<< "PURCHASE" >>, upper)
                /\ ~ContainsAny({ << "Year-to-date" >>, << "Total" >>,
                                  << "INTEREST" >> }, line)
        THEN [ st EXCEPT !.section = "purchase" ]
        ELSE IF Contains(<< "FEE", "S", " ", "CHARGED" >>, upper)
        THEN [ st EXCEPT !.section = "fees" ]
        ELSE IF Contains(<< "INTEREST", " ", "CHARGED" >>, upper)
        THEN [ st EXCEPT !.section = "interest" ]
        ELSE IF Contains(<< "2025", " ", "Total", "s", " ", "Year-to-Date" >>,
                         line)
        THEN [ st EXCEPT !.section = "" ]
        ELSE IF ContainsAny(SkipPatterns8635, line) THEN st
        ELSE IF st.section = "" THEN st
        ELSE IF ~m.matched \/ IsTooShortOrTotal(m.merchant) THEN st
        ELSE IF st.section = "payments"
        THEN IF IsNegative(m.amount) /\ IsPayment(m.merchant) THEN st
             ELSE [ st EXCEPT !.all_transactions =
                      Append(@, Extracted(i, current_cardholder, m.merchant,
                                          m.amount, "Credit",
                                          CategorizeEnhanced(m.merchant))) ]
        ELSE IF st.section = "purchase"
        THEN IF IsNegative(m.amount) THEN st
             ELSE [ st EXCEPT !.all_transactions =
                      Append(@, Extracted(i, current_cardholder, m.merchant,
                                          m.amount, "Purchase",
                                          CategorizeEnhanced(m.merchant))) ]
        ELSE [ st EXCEPT !.all_transactions =
                 Append(@, Extracted(i, current_cardholder, m.merchant,
                                     m.amount,
                                     IF st.section = "fees" THEN "Fee"
                                     ELSE "Interest",
                                     "CC FEES")) ]

RECURSIVE Loop8635(_, _, _)
Loop8635(ls, i, st) ==
    IF i > Len(ls) THEN st
    ELSE Loop8635(ls, i + 1, Step8635(st, i, ls[i]))

\* extract_8635_format_transactions(lines)
Extract8635FormatTransactions(ls) == Loop8635(ls, 1, Start8635).all_transactions

-----------------------------------------------------------------------------
(* extract_1250_format_transactions                                        *)

SkipPatterns1250 ==
    { << "Transaction", " ", "Date" >>, << "Posting", " ", "Date" >>,
      << "Description" >>, << "Reference", " ", "Number" >>,
      << "Account", " ", "Number" >>, << "Amount" >>, << "Total" >>,
      << "TOTAL", " ", "PAYMENT", "S" >>, << "TOTAL", " ", "PURCHASE", "S" >>,
      << "TOTAL", " ", "INTEREST" >>, << "TOTAL", " ", "FEE", "S" >>,
      << "2025", " ", "Total", "s", " ", "Year-to-Date" >>,
      << "Interest", " ", "Charge", " ", "Calculation" >>,
      << "Total", " ", "fees", " ", "charged" >>,
      << "Total", " ", "interest", " ", "charged" >> }

\* ^(\d{2}/\d{2})\s+(\d{2}/\d{2})\s+(.+?)\s+(\d+)\s+(\d{4})\s+
\*  ([-]?\d{1,3}(?:,\d{3})*\.?\d{0,2})$
MatchPosted(line) ==
    LET n == Len(line)
    IN  IF /\ n >= 11
           /\ IsDate(line[1]) /\ IsSpace(line[2])
           /\ IsDate(line[3]) /\ IsSpace(line[4])
           /\ IsSpace(line[n - 5]) /\ IsRefNumber(line[n - 4])
           /\ IsSpace(line[n - 3]) /\ IsFourDigits(line[n - 2])
           /\ IsSpace(line[n - 1]) /\ IsAmountText(line[n])
        THEN Match(Strip(SubSeq(line, 5, n - 6)), AmountOf(line[n]))
        ELSE NoMatch

Start1250 ==
    [ all_transactions |-> << >>, credits_to_include |-> << >>,
      section |-> "" ]

\* One pass of the first loop, for line number i.
Step1250(st, i, raw) ==
    LET line == Strip(raw)
        m == MatchPosted(line)
        description == m.merchant
        current_cardholder == << "SUMATHI", " ", "RAJ" >>
    IN  IF line = << >> THEN st
        ELSE IF Contains(<< "Payment", "s", " ", "and", " ", "Other", " ",
                            "Credits" >>, line)
        THEN [ st EXCEPT !.section = "credits" ]
        ELSE IF Contains(<< "Purchase", "s", " ", "and", " ",
                            "Adjustments" >>, line)
        THEN [ st EXCEPT !.section = "purchases" ]
        ELSE IF Contains(<< "Fee", "s", " ", "Charged" >>, line)
        THEN [ st EXCEPT !.section = "fees" ]
        ELSE IF Contains(<< "Interest", " ", "Charged" >>, line)
        THEN [ st EXCEPT !.section = "interest" ]
        ELSE IF ContainsAny(SkipPatterns1250, line) THEN st
        ELSE IF st.section = "" THEN st
        ELSE IF ~m.matched \/ TextLen(description) < 3 THEN st
        ELSE IF st.section = "credits"
        THEN IF /\ IsNegative(m.amount)
                /\ ~Contains(<< "PAYMENT" >>, UpperText(description))
             THEN [ st EXCEPT !.credits_to_include =
                      Append(@, Extracted(i, current_cardholder, description,
                                          m.amount, "Credit",
                                          CategorizeEnhanced(description))) ]
             ELSE st
        ELSE IF st.section = "purchases"
        THEN IF IsNegative(m.amount) THEN st
             ELSE [ st EXCEPT !.all_transactions =
                      Append(@, Extracted(i, current_cardholder, description,
                                          m.amount, "Purchase",
                                          CategorizeEnhanced(description))) ]
        ELSE [ st EXCEPT !.all_transactions =
                 Append(@, Extracted(i, current_cardholder, description,
                                     m.amount,
                                     IF st.section = "fees" THEN "Fee"
                                     ELSE "Interest",
                                     "CC FEES")) ]

RECURSIVE Loop1250(_, _, _)
Loop1250(ls, i, st) ==
    IF i > Len(ls) THEN st
    ELSE Loop1250(ls, i + 1, Step1250(st, i, ls[i]))

\* extract_1250_format_transactions(lines)
Extract1250FormatTransactions(ls) ==
    LET st == Loop1250(ls, 1, Start1250)
    IN  IncludeCredits(st.all_transactions, st.credits_to_include)

-----------------------------------------------------------------------------
(* extract_transactions_from_pdf of chase_analysis.py                      *)

MaxStatementLines == 3

AccountLine(f) == << "Account", " ", "Number", ":", " ", "XXXX", " ", f >>

\* Statement lines in the layout of each format: section headers, cardholder
\* lines, purchases, payments with either sign, refunds and fees.
StatementLineSamples(f) ==
    CASE f = "0801" ->
           { << "01/05", " ", "STORE", " ", "10.00" >>,
             << "01/06", " ", "SHELL", " ", "OIL", " ", "$", "20.00" >>,
             << "01/07", " ", "Payment", " ", "Thank You", " ", "-500.00" >>,
             << "01/08", " ", "AUTOMATIC", " ", "PAYMENT", " ", "10.00" >>,
             << "ASHOK", " ", "RAJ" >>,
             << " ", "SUMATHI", " ", "RAJ" >>,
             << "TRANSACTION", "S", " ", "THIS", " ", "CYCLE", " ", "(",
                "CARD", " ", "0801", ")", " ", "$", "10.00" >>,
             << " " >> }
      [] f \in { "5136", "8635" } ->
           { << "PAYMENT", "S", " ", "AND", " ", "OTHER", " ", "CREDITS" >>,
             << "PURCHASE" >>,
             << "FEE", "S", " ", "CHARGED" >>,
             << "01/05", " ", "STORE", " ", "10.00" >>,
             << "01/07", " ", "Payment", " ", "Thank You", " ", "-500.00" >>,
             << "01/08", " ", "AUTOMATIC", " ", "PAYMENT", " ", "10.00" >>,
             << "01/08", " ", "STORE", " ", "-10.00" >>,
             << "01/07", " ", "LATE", " ", "FEE", " ", "35.00" >> }
      [] f = "1250" ->
           { << "Payment", "s", " ", "and", " ", "Other", " ", "Credits" >>,
             << "Purchase", "s", " ", "and", " ", "Adjustments" >>,
             << "Fee", "s", " ", "Charged" >>,
             << "01/05", " ", "01/06", " ", "STORE", " ", "0996", " ", "1250",
                " ", "10.00" >>,
             << "01/07", " ", "01/08", " ", "ELECTRONIC", " ", "PAYMENT", " ",
                "0996", " ", "1250", " ", "-500.00" >>,
             << "01/07", " ", "01/08", " ", "Thank You", " ", "BONUS", " ",
                "0996", " ", "1250", " ", "-10.00" >>,
             << "01/08", " ", "01/08", " ", "AUTOMATIC", " ", "PAYMENT", " ",
                "0996", " ", "1250", " ", "10.00" >>,
             << "01/07", " ", "01/08", " ", "LATE", " ", "FEE", " ", "0996",
                " ", "1250", " ", "35.00" >> }

\* A statement: with or without its account line, then lines of one layout.
StatementSamples ==
    UNION { { head \o body :
                head \in { << >>, << AccountLine(f) >> },
                body \in SeqUpTo(StatementLineSamples(f), MaxStatementLines) } :
            f \in Formats }

\* extract_transactions_from_pdf(pdf_text): detection, then the extractor of
\* the detected format.
ExtractTransactionsFromPdf ==
    /\ impl = "enhanced"
    /\ ~extracted
    /\ format_type' = DetectStatementFormat(lines)
    /\ IF format_type' = "5136"
       THEN /\ all_transactions' = Extract5136FormatTransactions(lines)
            /\ pended' = {}
            /\ cardholder_at' = {}
       ELSE IF format_type' = "8635"
       THEN /\ all_transactions' = Extract8635FormatTransactions(lines)
            /\ pended' = {}
            /\ cardholder_at' = {}
       ELSE IF format_type' = "1250"
       THEN /\ all_transactions' = Extract1250FormatTransactions(lines)
            /\ pended' = {}
            /\ cardholder_at' = {}
       ELSE LET r == Extract0801FormatTransactions(lines)
            IN  /\ all_transactions' = r.all_transactions
                /\ pended' = r.pended
                /\ cardholder_at' = r.cardholder_at
    /\ extracted' = TRUE
    /\ UNCHANGED << lines, vars_an, vars_ms, vars_run, vars_cat >>

ExtractStart ==
    /\ InitAnalyzer
    /\ IdleMaster
    /\ IdleExtract
    /\ IdleRun
    /\ IdleCategorize
    /\ format_type = ""
    /\ lines \in StatementSamples

NextExtract == ExtractTransactionsFromPdf

SpecExtract == ExtractStart /\ [][NextExtract]_vars

-----------------------------------------------------------------------------
(* C7: extract_0801_format_transactions emits exactly once every purchase  *)
(* line it appended to pending_transactions whenever a cardholder line     *)
(* occurs later in the statement, and with the name of the nearest         *)
(* cardholder line that follows the purchase.                              *)
C7_Emitted(p) ==
    { k \in 1..Len(all_transactions) : all_transactions[k].line = p }

C7_OwnedByNextCardholder ==
    (extracted /\ impl = "enhanced" /\ format_type = "0801") =>
        \A p \in pended :
            LET later == { c \in cardholder_at : c > p }
            IN  later # {} =>
                  LET next == CHOOSE c \in later : \A d \in later : c <= d
                  IN  /\ Cardinality(C7_Emitted(p)) = 1
                      /\ \A k \in C7_Emitted(p) :
                           all_transactions[k].cardholder = Strip(lines[next])

-----------------------------------------------------------------------------
(* C9: for each of the four formats extract_transactions_from_pdf never    *)
(* emits a transaction whose merchant contains 'payment' or 'thank you'    *)
(* (case-insensitive), in any section and for any sign of the amount.      *)
C9_HasKeyword(merchant) ==
    \/ Contains(<< "PAYMENT" >>, UpperText(merchant))
    \/ Contains(<< "THANK YOU" >>, UpperText(merchant))

C9_NoPaymentEmitted ==
    (extracted /\ impl = "enhanced") =>
        \A k \in 1..Len(all_transactions) :
            ~C9_HasKeyword(all_transactions[k].merchant)

\* C9 as the code has it: the 0801 and 5136 extractors emit no merchant
\* that contains 'payment' or 'thank you'; the 8635 extractor emits one
\* with a negative amount only as a Fee or as Interest, and the 1250
\* extractor emits a description that contains 'PAYMENT' with a negative
\* amount only as a Fee or as Interest.
C9_Amended ==
    (extracted /\ impl = "enhanced") =>
        \A k \in 1..Len(all_transactions) :
            LET t == all_transactions[k]
            IN  /\ format_type \in { "0801", "5136" } =>
                     ~C9_HasKeyword(t.merchant)
                /\ (format_type = "8635" /\ C9_HasKeyword(t.merchant)
                      /\ t.amount.neg /\ t.amount.cents # 0) =>
                     t.type \in { "Fee", "Interest" }
                /\ (format_type = "1250"
                      /\ Contains(<< "PAYMENT" >>, UpperText(t.merchant))
                      /\ t.amount.neg /\ t.amount.cents # 0) =>
                     t.type \in { "Fee", "Interest" }

\* A payment line with a negative amount that was left out.
C9_SkippedPayment(i) ==
    LET m == MatchDollar(Strip(lines[i]))
    IN  /\ m.matched
        /\ C9_HasKeyword(m.merchant)
        /\ m.amount.neg
        /\ \A k \in 1..Len(all_transactions) : all_transactions[k].line # i

\* An 8635 statement whose payment was left out and whose positive
\* 'PAYMENT' line of the same section was emitted as a Credit.
C9_Witness ==
    /\ extracted
    /\ impl = "enhanced"
    /\ format_type = "8635"
    /\ \E i \in 1..Len(lines) : C9_SkippedPayment(i)
    /\ \E k \in 1..Len(all_transactions) :
           /\ C9_HasKeyword(all_transactions[k].merchant)
           /\ all_transactions[k].type = "Credit"

-----------------------------------------------------------------------------
(* RealChaseStatementAnalyzer.extract_transactions_from_pdf                *)

IsTransactionsCycleCaseSensitive(next_line) ==
    \* mutant: the search is made without re.IGNORECASE
    \E a \in 1..Len(next_line) :
        /\ next_line[a] = "TRANSACTION"
        /\ \E b \in (a + 1)..Len(next_line) : next_line[b] = "CYCLE"

\* re.search(pattern, next_line, re.IGNORECASE) for one of
\* TRANSACTIONS?\s+THIS\s+CYCLE and TRANSACTION.*CYCLE: what the first
\* pattern finds the second finds too.
IsTransactionsCycle(next_line) ==
    LET upper == UpperText(next_line)
    IN  \E a \in 1..Len(upper) :
            /\ upper[a] = "TRANSACTION"
            /\ \E b \in (a + 1)..Len(upper) : upper[b] = "CYCLE"

\* The upper-case letters a chunk starts with, for the chunks that are not
\* upper-case words: a capitalized word starts with one.
UpperHead(c) ==
    CASE c \in { "Ashok", "Account", "Adjustments" } -> "A"
      [] c \in { "Cycle", "Credits", "Charged" } -> "C"
      [] c \in { "Payment", "Purchase" } -> "P"
      [] c = "Raj" -> "R"
      [] c \in { "Thank You", "Transaction", "This" } -> "T"
      [] OTHER -> ""

\* Where the run of [A-Z]+ chunks that holds position i starts and ends.
RECURSIVE UpperRunStart(_, _)
UpperRunStart(s, i) ==
    IF i > 1 /\ IsUpperWord(s[i - 1]) THEN UpperRunStart(s, i - 1) ELSE i

RECURSIVE UpperRunEnd(_, _)
UpperRunEnd(s, i) ==
    IF i < Len(s) /\ IsUpperWord(s[i + 1]) THEN UpperRunEnd(s, i + 1) ELSE i

\* The positions j at which [A-Z]+\s+ has just been matched: a run of
\* spaces before j, and an upper-case word before the spaces.
AfterUpperWord(s) ==
    { j \in 3..Len(s) :
        /\ IsSpace(s[j - 1])
        /\ RunStart(s, j) > 1
        /\ IsUpperWord(s[RunStart(s, j) - 1]) }

\* group(1) of [A-Z]+\s+ followed by the chunks tail, the match ending
\* before position j.
UpperWordGroup(s, j, tail) ==
    SubSeq(s, UpperRunStart(s, RunStart(s, j) - 1), j - 1) \o tail

\* The first of cardholder_patterns that re.search finds in the line, as
\* match.group(1).strip(); NoCardholder when none does.
CardholderMatch(line) ==
    LET raj == { j \in AfterUpperWord(line) : line[j] = "RAJ" }
        word == { j \in AfterUpperWord(line) :
                    IsUpperWord(line[j]) \/ UpperHead(line[j]) # "" }
        first(S) == CHOOSE j \in S : \A k \in S : j <= k
    IN  IF raj # {}                                      \* ([A-Z]+\s+RAJ)
        THEN UpperWordGroup(line, first(raj), << "RAJ" >>)
        ELSE IF word # {}                             \* ([A-Z]+\s+[A-Z]+)
        THEN LET j == first(word)
             IN  UpperWordGroup(line, j,
                     IF IsUpperWord(line[j])
                     THEN SubSeq(line, j, UpperRunEnd(line, j))
                     ELSE << UpperHead(line[j]) >>)
        ELSE IF /\ line # << >>                              \* ^([A-Z\s]+)$
                /\ \A i \in 1..Len(line) :
                       IsUpperWord(line[i]) \/ IsSpace(line[i])
        THEN Strip(line)
        ELSE NoCardholder

\* Where ([-]?\$?\d{1,3}(?:,\d{3})*\.?\d{0,2}) starts when it ends with
\* chunk j, 0 when chunk j does not end one that follows \s+.
AmountStart(line, j) ==
    IF ~IsAmountText(line[j]) THEN 0
    ELSE IF j > 1 /\ line[j - 1] = "$"
    THEN IF ~AmountOf(line[j]).neg /\ j > 2 /\ IsSpace(line[j - 2])
         THEN j - 1 ELSE 0
    ELSE IF j > 1 /\ IsSpace(line[j - 1]) THEN j ELSE 0

\* The match of ^(\d{2}/\d{2})\s+(.+?)\s+(amount) with the amount ending
\* at chunk j.
MatchEndingAt(line, j) ==
    LET a == AmountStart(line, j)
    IN  IF /\ a >= 5
           /\ IsDate(line[1]) /\ IsSpace(line[2])
        THEN Match(Strip(SubSeq(line, 3, a - 2)), AmountOf(line[j]))
        ELSE NoMatch

\* The first of transaction_patterns that matches the stripped line with a
\* merchant of three characters or more: the first two end at the end of
\* the line, the third at the first amount that a space or the end
\* follows.  A shorter merchant is short for each of them.
MatchReal(line) ==
    LET n == Len(line)
        ends == { j \in 1..n :
                    /\ MatchEndingAt(line, j).matched
                    /\ j = n \/ IsSpace(line[j + 1]) }
    IN  IF n >= 1 /\ MatchEndingAt(line, n).matched
        THEN MatchEndingAt(line, n)
        ELSE IF ends # {}
        THEN MatchEndingAt(line, CHOOSE j \in ends : \A k \in ends : j <= k)
        ELSE NoMatch

EmitPendingReal(pending, cardholder) ==
    [ k \in 1..Len(pending) |->
        Extracted(pending[k].line, cardholder, pending[k].merchant,
                  pending[k].amount, "Purchase",
                  CategorizeReal(pending[k].merchant)) ]

StartReal ==
    [ all_transactions |-> << >>, current_cardholder |-> NoCardholder,
      pending_transactions |-> << >>, pended |-> {}, cardholder_at |-> {} ]

\* One pass of the for loop, for line number i.
StepReal(st, i, ls) ==
    LET line == Strip(ls[i])
        next_line == IF i + 1 <= Len(ls) THEN Strip(ls[i + 1]) ELSE << >>
        name == CardholderMatch(line)
        m == MatchReal(line)
    IN  IF line = << >> THEN st
        ELSE IF IsTransactionsCycle(next_line)
        THEN IF name # NoCardholder
             THEN [ st EXCEPT
                      !.current_cardholder = name,
                      !.all_transactions =
                          @ \o EmitPendingReal(st.pending_transactions, name),
                      !.pending_transactions = << >>,
                      !.cardholder_at = @ \cup { i } ]
             ELSE st
        ELSE IF /\ m.matched
                /\ ~IsTooShortOrTotal(m.merchant)
                /\ ~(IsNegative(m.amount) \/ IsPayment(m.merchant))
        THEN [ st EXCEPT
                 !.pending_transactions =
                     Append(@, Pending(i, m.merchant, m.amount)),
                 !.pended = @ \cup { i } ]
        ELSE st

RECURSIVE LoopReal(_, _, _)
LoopReal(ls, i, st) ==
    IF i > Len(ls) THEN st
    ELSE LoopReal(ls, i + 1, StepReal(st, i, ls))

\* extract_transactions_from_pdf(pdf_text) of real_chase_analysis.py
ExtractReal(ls) ==
    LET st == LoopReal(ls, 1, StartReal)
    IN  [ st EXCEPT
            !.all_transactions =
                IF /\ st.pending_transactions # << >>
                   /\ st.current_cardholder # NoCardholder
                THEN @ \o EmitPendingReal(st.pending_transactions,
                                          st.current_cardholder)
                ELSE @ ]

\* statement_text of extract_transactions_correct_assignment, line by line;
\* the default data of get_transaction_data_for_pdf is the same text.
StatementTextJuly ==
    <<
      << "06/08", " ", "TST*", " ", "APNA", " ", "BAZAAR", " ", "-", " ",
         "NEW", " ", "BEAVERTON", " ", "OR", " ", "64.00" >>,
      << "06/10", " ", "COSTCO", " ", "WHSE", " ", "#0692", " ",
         "HILLSBORO", " ", "OR", " ", "779.76" >>,
      << "06/10", " ", "COSTCO", " ", "GAS", " ", "#0692", " ",
         "HILLSBORO", " ", "OR", " ", "86.72" >>,
      << "06/10", " ", "CITY", " ", "OF", " ", "HILLSBORO", " ",
         "503-615-6628", " ", "OR", " ", "91.96" >>,
      << "06/11", " ", "CHEFSTORE", " ", "7537", " ", "PORTLAND", " ",
         "OR", " ", "92.78" >>,
      << "06/11", " ", "CHEFSTORE", " ", "7208", " ", "BEAVERTON", " ",
         "OR", " ", "82.58" >>,
      << "06/11", " ", "RESTAURANT", " ", "DEPOT", " ", "PORTLAND", " ",
         "OR", " ", "3,493.67" >>,
      << "06/13", " ", "INDIA", " ", "SUPERMARKET", " ", "BEAVERTON", " ",
         "OR", " ", "13.20" >>,
      << "06/17", " ", "COSTCO", " ", "WHSE", " ", "#0692", " ",
         "HILLSBORO", " ", "OR", " ", "461.29" >>,
      << "06/17", " ", "SAFEWAY", " ", "#1230", " ", "HILLSBORO", " ",
         "OR", " ", "2.29" >>,
      << "06/18", " ", "COSTCO", " ", "WHSE", " ", "#0692", " ",
         "HILLSBORO", " ", "OR", " ", "41.95" >>,
      << "06/18", " ", "CHEFSTORE", " ", "7208", " ", "BEAVERTON", " ",
         "OR", " ", "46.09" >>,
      << "06/18", " ", "RESTAURANT", " ", "DEPOT", " ", "PORTLAND", " ",
         "OR", " ", "1,921.88" >>,
      << "06/20", " ", "SAFEWAY", " ", "#1230", " ", "HILLSBORO", " ",
         "OR", " ", "12.98" >>,
      << "06/20", " ", "INDIA", " ", "SUPERMARKET", " ", "BEAVERTON", " ",
         "OR", " ", "42.33" >>,
      << "06/24", " ", "COSTCO", " ", "WHSE", " ", "#0009", " ", "ALOHA",
         " ", "OR", " ", "403.15" >>,
      << "06/24", " ", "COSTCO", " ", "GAS", " ", "#0009", " ", "ALOHA",
         " ", "OR", " ", "79.65" >>,
      << "06/25", " ", "TST*", " ", "APNA", " ", "BAZAAR", " ", "-", " ",
         "NEW", " ", "BEAVERTON", " ", "OR", " ", "64.00" >>,
      << "06/25", " ", "CHEFSTORE", " ", "7537", " ", "PORTLAND", " ",
         "OR", " ", "59.82" >>,
      << "06/25", " ", "RESTAURANT", " ", "DEPOT", " ", "PORTLAND", " ",
         "OR", " ", "1,615.60" >>,
      << "07/01", " ", "COSTCO", " ", "WHSE", " ", "#0009", " ", "ALOHA",
         " ", "OR", " ", "397.77" >>,
      << "07/01", " ", "ABOVE", " ", "ALL", " ", "ACCOUNTING", " ",
         "503-3516455", " ", "OR", " ", "561.60" >>,
      << "07/02", " ", "CHEFSTORE", " ", "7537", " ", "PORTLAND", " ",
         "OR", " ", "131.87" >>,
      << "07/02", " ", "TST*", " ", "APNA", " ", "BAZAAR", " ", "-", " ",
         "NEW", " ", "BEAVERTON", " ", "OR", " ", "5.66" >>,
      << "07/02", " ", "RESTAURANT", " ", "DEPOT", " ", "PORTLAND", " ",
         "OR", " ", "1,727.28" >>,
      << "07/02", " ", "INDIA", " ", "SUPERMARKET", " ", "BEAVERTON", " ",
         "OR", " ", "75.32" >>,
      << "AAKASH", " ", "RAJ" >>,
      << "TRANSACTION", "S", " ", "THIS", " ", "CYCLE", " ", "(", "CARD",
         " ", "7172", ")", " ", "$", "12355.20" >>,
      << "06/17", " ", "AMZNMktplace", " ", "amazon.co.uk", " ", "-11.33" >>,
      << "06/28", " ", "Payment", " ", "Thank", " ", "You-Mobile", " ",
         "-19,000.00" >>,
      << "06/28", " ", "Payment", " ", "Thank", " ", "You-Mobile", " ",
         "-3,886.74" >>,
      << "06/07", " ", "CCSI", " ", "EFAX", " ", "323-817-3205", " ",
         "CA", " ", "169.50" >>,
      << "06/09", " ", "PORTLAND", " ", "GENERAL", " ", "ELECTRIC", " ",
         "800-542-8818", " ", "OR", " ", "552.11" >>,
      << "06/09", " ", "PORTLAND", " ", "GENERAL", " ", "ELECTRIC", " ",
         "800-542-8818", " ", "OR", " ", "499.59" >>,
      << "06/09", " ", "OR", " ", "SEC", " ", "STATE", " ", "CORPDIV",
         " ", "503-9862200", " ", "OR", " ", "100.00" >>,
      << "06/12", " ", "GOOGLE", " ", "*YouTube", " ", "TV", " ",
         "g.co/helppay#", " ", "CA", " ", "82.99" >>,
      << "06/12", " ", "TUALATIN", " ", "VALLEY", " ", "WATER", " ",
         "503-848-3000", " ", "OR", " ", "209.13" >>,
      << "06/12", " ", "COMCAST", " ", "/", " ", "XFINITY", " ",
         "800-266-2278", " ", "OR", " ", "237.08" >>,
      << "06/13", " ", "VONAGE", " ", "*PRICE+TAXES", " ", "732-944-0000",
         " ", "NJ", " ", "16.31" >>,
      << "06/13", " ", "PORTLAND", " ", "PARKING", " ", "KITTY", " ",
         "503-2785410", " ", "OR", " ", "5.40" >>,
      << "06/17", " ", "eBay", " ", "O*13-13208-17685", " ",
         "800-4563229", " ", "CA", " ", "37.99" >>,
      << "06/18", " ", "JG", " ", "*LYMPHOMA", " ", "ACTION", " ",
         "LONDON", " ", "25.00" >>,
      << "06/18", " ", "NMI*NATIONWIDE", " ", "800-282-1446", " ", "IA",
         " ", "426.09" >>,
      << "06/19", " ", "Amazon.com*NO73404K1", " ", "Amzn.com/bill", " ",
         "WA", " ", "62.30" >>,
      << "06/20", " ", "AMAZON", " ", "MKTPL*NO2RH3151", " ",
         "Amzn.com/bill", " ", "WA", " ", "55.95" >>,
      << "06/22", " ", "AMAZON", " ", "MKTPL*NO11F5PF0", " ",
         "Amzn.com/bill", " ", "WA", " ", "22.95" >>,
      << "06/22", " ", "NETFLIX.COM", " ", "NETFLIX.COM", " ", "CA", " ",
         "24.99" >>,
      << "06/23", " ", "GOOGLE", " ", "*Google", " ", "One", " ",
         "855-836-3987", " ", "CA", " ", "2.99" >>,
      << "06/24", " ", "PORTLAND", " ", "GENERAL", " ", "ELECTRIC", " ",
         "800-542-8818", " ", "OR", " ", "649.30" >>,
      << "06/24", " ", "PORTLAND", " ", "GENERAL", " ", "ELECTRIC", " ",
         "800-542-8818", " ", "OR", " ", "811.91" >>,
      << "06/24", " ", "HLU*HULUPLUS", " ", "hulu.com/bill", " ", "CA",
         " ", "26.99" >>,
      << "06/24", " ", "PORTLAND", " ", "GENERAL", " ", "ELECTRIC", " ",
         "800-542-8818", " ", "OR", " ", "76.31" >>,
      << "06/27", " ", "WWW.SPOTHOPPERAPP.COM", " ", "WWW.SPOTHOPPE", " ",
         "WI", " ", "448.00" >>,
      << "06/27", " ", "APPLE.COM/BILL", " ", "866-712-7753", " ", "CA",
         " ", "4.99" >>,
      << "07/02", " ", "CLCKPAY*TANASBOURNE", " ", "PLACE", " ",
         "800-5337901", " ", "NY", " ", "308.34" >>,
      << "07/02", " ", "AMAZON", " ", "MKTPL*N35F98TV0", " ",
         "Amzn.com/bill", " ", "WA", " ", "19.99" >>,
      << "07/02", " ", "AMAZON", " ", "MKTPL*N33010EH1", " ",
         "Amzn.com/bill", " ", "WA", " ", "50.85" >>,
      << "07/03", " ", "ADT", " ", "SECURITY*404603211", " ",
         "WWW.ADT.COM", " ", "FL", " ", "57.23" >>,
      << "07/03", " ", "PITMAN", " ", "RESTARAUNT", " ", "EQUIP", " ",
         "800-2046431", " ", "OR", " ", "159.00" >>,
      << "07/03", " ", "PY", " ", "*Saela", " ", "Pest", " ", "Control",
         " ", "866-5290864", " ", "UT", " ", "80.00" >>,
      << "07/04", " ", "AMAZON", " ", "MKTPL*N35EN25T0", " ",
         "Amzn.com/bill", " ", "WA", " ", "149.95" >>,
      << "07/05", " ", "Amazon", " ", "Tips*N36F756C1", " ",
         "Amzn.com/bill", " ", "WA", " ", "5.00" >>,
      << "07/06", " ", "PERFECTPOUR*", " ", "PERF", " ", "POUR", " ",
         "PERFECTPOURSE", " ", "OR", " ", "77.06" >>,
      << "07/05", " ", "COMCAST", " ", "/", " ", "XFINITY", " ",
         "800-266-2278", " ", "OR", " ", "143.00" >>,
      << "07/04", " ", "Amazon.com*N33P87HK1", " ", "Amzn.com/bill", " ",
         "WA", " ", "71.77" >>,
      << "07/05", " ", "THE", " ", "WEBSTAURANT", " ", "STORE", " ",
         "INC", " ", "717-392-7472", " ", "PA", " ", "194.39" >>,
      << "ASHOK", " ", "RAJ" >>,
      << "TRANSACTION", "S", " ", "THIS", " ", "CYCLE", " ", "(", "CARD",
         " ", "0801", ")", " ", "$", "17033.62", "-" >>,
      << "INCLUDING", " ", "PAYMENT", "S", " ", "RECEIVED" >>,
      << "06/08", " ", "CAFE", " ", "WEEKEND", " ", "ALLSTON", " ", "MA",
         " ", "111.04" >>,
      << "06/11", " ", "GDP*TP", " ", "Produce", " ", "Portland", " ",
         "OR", " ", "205.99" >>,
      << "06/12", " ", "CHEFSTORE", " ", "7208", " ", "BEAVERTON", " ",
         "OR", " ", "92.41" >>,
      << "06/12", " ", "CLR*StretchLab5036932599", " ", "503-6932599",
         " ", "OR", " ", "16.00" >>,
      << "06/19", " ", "IN", " ", "*NORTHWEST", " ", "BIOFUEL", " ",
         "503-9546173", " ", "OR", " ", "135.00" >>,
      << "06/27", " ", "CVSExtraCare", " ", "8007467287RI", " ",
         "800-746-7287", " ", "RI", " ", "5.00" >>,
      << "07/01", " ", "US", " ", "LINEN", " ", "AND", " ", "UNIFORM",
         " ", "509-9466125", " ", "WA", " ", "319.48" >>,
      << "SUMATHI", " ", "RAJ" >>,
      << "TRANSACTION", "S", " ", "THIS", " ", "CYCLE", " ", "(", "CARD",
         " ", "6457", ")", " ", "$", "884.92" >>,
      << "06/09", " ", "CHIPOTLE", " ", "2686", " ", "PORTLAND", " ",
         "OR", " ", "28.90" >>,
      << "06/12", " ", "DENNIS", " ", "MARKET", " ", "PORTLAND", " ",
         "OR", " ", "4.10" >>,
      << "06/14", " ", "MY", " ", "FAVORITE", " ", "MUFFIN", " ",
         "BEAVERTON", " ", "OR", " ", "23.25" >>,
      << "06/14", " ", "NORDSTROM", " ", "#0025", " ", "TIGARD", " ",
         "OR", " ", "132.00" >>,
      << "06/14", " ", "REDTAIL", " ", "GOLF", " ", "CENTER", " ",
         "BEAVERTON", " ", "OR", " ", "30.00" >>,
      << "06/17", " ", "MARKET", " ", "OF", " ", "CHOICE", " ", "#2", " ",
         "PORTLAND", " ", "OR", " ", "20.88" >>,
      << "06/17", " ", "KRISPY", " ", "KREME", " ", "#9000", " ",
         "BEAVERTON", " ", "OR", " ", "19.99" >>,
      << "06/20", " ", "TARGET", " ", "00034132", " ", "PORTLAND", " ",
         "OR", " ", "34.97" >>,
      << "06/21", " ", "PDX", " ", "POOR", " ", "YOURNWTRAVEL", " ",
         "Portland", " ", "OR", " ", "14.97" >>,
      << "06/22", " ", "TST*", " ", "JAMBA", " ", "JUICE", " ", "-", " ",
         "103299", " ", "PORTLAND", " ", "OR", " ", "9.39" >>,
      << "06/26", " ", "CULTUREMAPST2571", " ", "HOUSTON", " ", "TX", " ",
         "6.72" >>,
      << "06/28", " ", "053", " ", "TORCHYS", " ", "WESTCHASE", " ",
         "HOUSTON", " ", "TX", " ", "22.15" >>,
      << "06/28", " ", "CHERRY", " ", "HOUSTON", " ", "TX", " ", "33.78" >>,
      << "06/28", " ", "TST*AGAS", " ", "RESTAURANT", " ", "&", " ", "C",
         " ", "Houston", " ", "TX", " ", "96.10" >>,
      << "06/27", " ", "OAKLEY", " ", "B016", " ", "HOUSTON", " ", "TX",
         " ", "73.08" >>,
      << "06/28", " ", "TST*", " ", "EL", " ", "CENTRO", " ", "HTX", " ",
         "HOUSTON", " ", "TX", " ", "31.11" >>,
      << "06/29", " ", "TST*", " ", "VELVET", " ", "TACO", " ", "-", " ",
         "HOUSTO", " ", "HOUSTON", " ", "TX", " ", "29.29" >>,
      << "06/28", " ", "DEAN", " ", "S", " ", "DOWNTOWN", " ", "HOUSTON",
         " ", "TX", " ", "50.15" >>,
      << "06/28", " ", "TST*CICCIOS", " ", "PASTA", " ", "Houston", " ",
         "TX", " ", "19.72" >>,
      << "06/29", " ", "IAH", " ", "CS", " ", "FORNO", " ", "MAGICO", " ",
         "866-5083558", " ", "TX", " ", "22.09" >>,
      << "06/30", " ", "TST*", " ", "SALT", " ", "AND", " ", "STRAW", " ",
         "-", " ", "CED", " ", "BEAVERTON", " ", "OR", " ", "6.84" >>,
      << "06/28", " ", "OJOS", " ", "LOCOS", " ", "SPORTS", " ", "5004",
         " ", "HOUSTON", " ", "TX", " ", "5.00" >>,
      << "06/29", " ", "10207", " ", "CAVA", " ", "WESTCHASE", " ",
         "HOUSTON", " ", "TX", " ", "21.70" >>,
      << "06/29", " ", "IAH", " ", "CN", " ", "Q", " ", "BAR", " ",
         "866-5083558", " ", "TX", " ", "22.09" >>,
      << "06/29", " ", "IAH", " ", "CS", " ", "FORNO", " ", "MAGICO", " ",
         "866-5083558", " ", "TX", " ", "22.09" >>,
      << "07/01", " ", "LTF*LIFE", " ", "TIME", " ", "MO", " ", "DUES",
         " ", "LIFETIME.LIFE", " ", "MN", " ", "255.23" >>,
      << "07/03", " ", "COSTCO", " ", "WHSE", " ", "#0483", " ", "SAN",
         " ", "DIEGO", " ", "CA", " ", "157.23" >>,
      << "07/03", " ", "10453", " ", "CAVA", " ", "FRONT", " ", "&", " ",
         "BRO", " ", "SAN", " ", "DIEGO", " ", "CA", " ", "25.64" >>,
      << "07/04", " ", "TST*SMOKING", " ", "GUN", " ", "-", " ", "SAN",
         " ", "DI", " ", "San", " ", "Diego", " ", "CA", " ", "13.01" >>,
      << "07/05", " ", "TST*", " ", "OPEN", " ", "BAR", " ", "SAN", " ",
         "DIEGO", " ", "CA", " ", "26.40" >>,
      << "07/05", " ", "GAMESTOP", " ", "#1403", " ", "SAN", " ", "DIEGO",
         " ", "CA", " ", "34.78" >>,
      << "07/05", " ", "THE", " ", "LOT", " ", "POINT", " ", "LOMA", " ",
         "619-566-0096", " ", "CA", " ", "46.00" >>,
      << "07/04", " ", "GAME", " ", "EMPIRE", " ", "INC", " ", "SAN", " ",
         "DIEGO", " ", "CA", " ", "12.92" >>,
      << "07/05", " ", "TST*", " ", "OPEN", " ", "BAR", " ", "SAN", " ",
         "DIEGO", " ", "CA", " ", "13.20" >>,
      << "07/05", " ", "TST*", " ", "OPEN", " ", "BAR", " ", "SAN", " ",
         "DIEGO", " ", "CA", " ", "13.20" >>,
      << "AKSHAY", " ", "RAJ" >>,
      << "TRANSACTION", "S", " ", "THIS", " ", "CYCLE", " ", "(", "CARD",
         " ", "3346", ")", " ", "$", "1377.97" >>
    >>

\* The data of get_transaction_data_for_pdf for the March 2025 statement.
StatementTextMarch ==
    <<
      << "02/12", " ", "COMCAST", " ", "CABLE", " ", "COMM", " ",
         "800-COMCAST", " ", "OR", " ", "137.13" >>,
      << "02/25", " ", "COSTCO", " ", "GAS", " ", "#0692", " ",
         "HILLSBORO", " ", "OR", " ", "45.02" >>,
      << "02/25", " ", "COSTCO", " ", "WHSE", " ", "#0692", " ",
         "HILLSBORO", " ", "OR", " ", "116.57" >>,
      << "02/27", " ", "CHEFSTORE", " ", "7537", " ", "PORTLAND", " ",
         "OR", " ", "26.45" >>,
      << "02/27", " ", "RESTAURANT", " ", "DEPOT", " ", "PORTLAND", " ",
         "OR", " ", "294.95" >>,
      << "03/04", " ", "COSTCO", " ", "WHSE", " ", "#0692", " ",
         "HILLSBORO", " ", "OR", " ", "79.83" >>,
      << "AAKASH", " ", "RAJ" >>,
      << "TRANSACTION", "S", " ", "THIS", " ", "CYCLE", " ", "(", "CARD",
         " ", "7172", ")", " ", "$", "699.95" >>,
      << "02/11", " ", "OWNER.COM", " ", "OWNER.COM", " ", "CA", " ",
         "-499.00" >>,
      << "02/28", " ", "Payment", " ", "Thank", " ", "You-Mobile", " ",
         "-6,972.35" >>,
      << "02/06", " ", "Amazon.com*Z799E3KC0", " ", "Amzn.com/bill", " ",
         "WA", " ", "9.72" >>,
      << "02/08", " ", "AMAZON", " ", "MKTPL*Z719X8DK1", " ",
         "Amzn.com/bill", " ", "WA", " ", "12.99" >>,
      << "02/07", " ", "AMAZON", " ", "MKTPL*QQ6X78193", " ",
         "Amzn.com/bill", " ", "WA", " ", "14.86" >>,
      << "02/10", " ", "CITY", " ", "OF", " ", "HILLSBORO", " ",
         "503-615-6628", " ", "OR", " ", "87.76" >>,
      << "02/11", " ", "OWNER.COM", " ", "OWNER.COM", " ", "CA", " ",
         "499.00" >>,
      << "02/10", " ", "COMMERCIAL", " ", "DISHWASHER", " ",
         "503-408-0244", " ", "WA", " ", "302.60" >>,
      << "02/13", " ", "GOOGLE", " ", "*YouTube", " ", "TV", " ",
         "g.co/helppay#", " ", "CA", " ", "82.99" >>,
      << "02/12", " ", "TUALATIN", " ", "VALLEY", " ", "WATER", " ",
         "503-848-3000", " ", "OR", " ", "230.00" >>,
      << "02/13", " ", "VONAGE", " ", "*PRICE+TAXES", " ", "732-944-0000",
         " ", "NJ", " ", "16.14" >>,
      << "02/19", " ", "NMI*NATIONWIDE", " ", "800-282-1446", " ", "IA",
         " ", "426.08" >>,
      << "02/20", " ", "WEB*NETFIRMS", " ", "netfirms.com", " ", "MA",
         " ", "23.99" >>,
      << "02/19", " ", "UNITED", " ", "0162461937518", " ", "UNITED.COM",
         " ", "TX", " ", "46.40" >>,
      << "02/22", " ", "NETFLIX.COM", " ", "NETFLIX.COM", " ", "CA", " ",
         "24.99" >>,
      << "02/22", " ", "Amazon.com*K460K9093", " ", "Amzn.com/bill", " ",
         "WA", " ", "56.22" >>,
      << "02/22", " ", "Amazon.com*YD92X6ZS3", " ", "Amzn.com/bill", " ",
         "WA", " ", "51.84" >>,
      << "02/23", " ", "GOOGLE", " ", "*Google", " ", "One", " ",
         "g.co/helppay#", " ", "CA", " ", "2.99" >>,
      << "02/24", " ", "AMAZON", " ", "MKTPL*OD84A1LR3", " ",
         "Amzn.com/bill", " ", "WA", " ", "19.99" >>,
      << "02/24", " ", "HLU*HULUPLUS", " ", "hulu.com/bill", " ", "CA",
         " ", "26.99" >>,
      << "02/24", " ", "TONAL", " ", "SYSTEMS,", " ", "INC", " ",
         "TONAL.COM", " ", "CA", " ", "59.95" >>,
      << "02/27", " ", "APPLE.COM/BILL", " ", "866-712-7753", " ", "CA",
         " ", "4.99" >>,
      << "03/02", " ", "AMAZON", " ", "MKTPL*NQ1FW0TH3", " ",
         "Amzn.com/bill", " ", "WA", " ", "21.99" >>,
      << "03/02", " ", "CLCKPAY*TANASBOURNE", " ", "PLACE", " ",
         "800-5337901", " ", "NY", " ", "308.34" >>,
      << "03/03", " ", "AMAZON", " ", "MKTPL*519UD9ON3", " ",
         "Amzn.com/bill", " ", "WA", " ", "39.98" >>,
      << "03/03", " ", "WWW.SPOTHOPPERAPP.COM", " ", "WWW.SPOTHOPPE", " ",
         "WI", " ", "48.00" >>,
      << "03/03", " ", "ADT", " ", "SECURITY*404603211", " ",
         "WWW.ADT.COM", " ", "FL", " ", "37.23" >>,
      << "03/04", " ", "AMAZON", " ", "MKTPL*I15683KI3", " ",
         "Amzn.com/bill", " ", "WA", " ", "9.99" >>,
      << "03/05", " ", "COMCAST", " ", "CABLE", " ", "COMM", " ",
         "800-COMCAST", " ", "OR", " ", "43.00" >>,
      << "03/05", " ", "PORTLAND", " ", "GENERAL", " ", "ELECTRIC", " ",
         "800-542-8818", " ", "OR", " ", "29.42" >>,
      << "ASHOK", " ", "RAJ" >>,
      << "TRANSACTION", "S", " ", "THIS", " ", "CYCLE", " ", "(", "CARD",
         " ", "0801", ")", " ", "$", "1377.77", "-" >>,
      << "INCLUDING", " ", "PAYMENT", "S", " ", "RECEIVED" >>,
      << "02/11", " ", "PITMAN", " ", "RESTARAUNT", " ", "EQUIP", " ",
         "800-2046431", " ", "OR", " ", "22.16" >>,
      << "02/11", " ", "PITMAN", " ", "RESTARAUNT", " ", "EQUIP", " ",
         "800-2046431", " ", "OR", " ", "129.20" >>,
      << "02/20", " ", "TST*", " ", "APNA", " ", "BAZAAR", " ", "-", " ",
         "NEW", " ", "BEAVERTON", " ", "OR", " ", "46.16" >>,
      << "02/27", " ", "CVSExtraCare", " ", "8007467287RI", " ",
         "800-746-7287", " ", "RI", " ", "5.00" >>,
      << "02/27", " ", "IN", " ", "*NORTHWEST", " ", "BIOFUEL", " ",
         "503-9546173", " ", "OR", " ", "55.00" >>,
      << "03/04", " ", "US", " ", "LINEN", " ", "AND", " ", "UNIFORM",
         " ", "509-9466125", " ", "WA", " ", "219.48" >>,
      << "SUMATHI", " ", "RAJ" >>,
      << "TRANSACTION", "S", " ", "THIS", " ", "CYCLE", " ", "(", "CARD",
         " ", "6457", ")", " ", "$", "477.00" >>,
      << "02/06", " ", "CHEVRON", " ", "0092782", " ", "HAYWARD", " ",
         "CA", " ", "48.60" >>,
      << "02/08", " ", "WAYMO", " ", "844-261-3753", " ", "CA", " ",
         "9.64" >>,
      << "02/09", " ", "WAYMO", " ", "844-261-3753", " ", "CA", " ",
         "10.96" >>,
      << "02/07", " ", "PAGODA.", " ", "SAN", " ", "FRANCISCO", " ", "CA",
         " ", "21.00" >>,
      << "02/07", " ", "POKESTORE", " ", "SAN", " ", "FRANCISCO", " ",
         "CA", " ", "18.99" >>,
      << "02/09", " ", "JUMP", " ", "START", " ", "GROCERY", " ", "SAN",
         " ", "FRANCISCO", " ", "CA", " ", "30.81" >>,
      << "02/08", " ", "Little", " ", "Lucca", " ", "South", " ", "San",
         " ", "Fra", " ", "CA", " ", "20.70" >>,
      << "02/10", " ", "WAYMO", " ", "844-261-3753", " ", "CA", " ",
         "7.68" >>,
      << "02/09", " ", "TST*", " ", "THE", " ", "NAPPER", " ", "TANDY",
         " ", "SAN", " ", "FRANCISCO", " ", "CA", " ", "11.73" >>,
      << "02/16", " ", "WAYMO", " ", "844-261-3753", " ", "CA", " ",
         "10.42" >>,
      << "02/16", " ", "SQ", " ", "*CASANOVA", " ", "LOUNGE", " ", "San",
         " ", "Francisco", " ", "CA", " ", "17.01" >>,
      << "02/17", " ", "WAYMO", " ", "844-261-3753", " ", "CA", " ",
         "8.36" >>,
      << "02/16", " ", "TST*WHITE", " ", "RABBIT", " ", "San", " ",
         "Francisco", " ", "CA", " ", "22.64" >>,
      << "02/16", " ", "WAYMO", " ", "844-261-3753", " ", "CA", " ",
         "12.78" >>,
      << "02/17", " ", "WAYMO", " ", "844-261-3753", " ", "CA", " ",
         "6.09" >>,
      << "02/16", " ", "WAYMO", " ", "844-261-3753", " ", "CA", " ",
         "8.69" >>,
      << "02/22", " ", "TST*BURMA", " ", "LOVE", " ", "-", " ", "VALENCI",
         " ", "San", " ", "Francisco", " ", "CA", " ", "31.19" >>,
      << "02/22", " ", "SQ", " ", "*BAR", " ", "PART", " ", "TIME", " ",
         "San", " ", "Francisco", " ", "CA", " ", "27.47" >>,
      << "02/25", " ", "PROMETRIC", " ", "LLC", " ", "WWW.PROMETRIC", " ",
         "MD", " ", "30.00" >>,
      << "02/26", " ", "SQ", " ", "*BEIT", " ", "RIMA", " ", "SAN", " ",
         "FRANCISCO", " ", "CA", " ", "28.46" >>,
      << "03/01", " ", "R", " ", "BAR", " ", "SAN", " ", "FRANCISCO", " ",
         "CA", " ", "9.38" >>,
      << "AKSHAY", " ", "RAJ" >>,
      << "TRANSACTION", "S", " ", "THIS", " ", "CYCLE", " ", "(", "CARD",
         " ", "3346", ")", " ", "$", "391.60" >>
    >>

\* The \d{2}/\d{2} chunks of the two texts
StatementDates ==
    { "02/06", "02/07", "02/08", "02/09", "02/10", "02/11", "02/12",
      "02/13", "02/16", "02/17", "02/19", "02/20", "02/22", "02/23",
      "02/24", "02/25", "02/26", "02/27", "02/28", "03/01", "03/02",
      "03/03", "03/04", "03/05", "06/07", "06/08", "06/09", "06/10",
      "06/11", "06/12", "06/13", "06/14", "06/17", "06/18", "06/19",
      "06/20", "06/21", "06/22", "06/23", "06/24", "06/25", "06/26",
      "06/27", "06/28", "06/29", "06/30", "07/01", "07/02", "07/03",
      "07/04", "07/05", "07/06" }

\* The chunks of the two texts that [-]?\d{1,3}(?:,\d{3})*\.?\d{2} matches, with
\* the cents of float(amount_str.replace(',', ''))
StatementAmounts ==
    { << "-11.33", -1133 >>, << "-19,000.00", -1900000 >>,
      << "-3,886.74", -388674 >>, << "-499.00", -49900 >>,
      << "-6,972.35", -697235 >>, << "1,615.60", 161560 >>,
      << "1,727.28", 172728 >>, << "1,921.88", 192188 >>,
      << "10.42", 1042 >>, << "10.96", 1096 >>, << "100.00", 10000 >>,
      << "11.73", 1173 >>, << "111.04", 11104 >>, << "116.57", 11657 >>,
      << "12.78", 1278 >>, << "12.92", 1292 >>, << "12.98", 1298 >>,
      << "12.99", 1299 >>, << "129.20", 12920 >>, << "13.01", 1301 >>,
      << "13.20", 1320 >>, << "131.87", 13187 >>, << "132.00", 13200 >>,
      << "135.00", 13500 >>, << "137.13", 13713 >>, << "14.86", 1486 >>,
      << "14.97", 1497 >>, << "143.00", 14300 >>, << "149.95", 14995 >>,
      << "157.23", 15723 >>, << "159.00", 15900 >>, << "16.00", 1600 >>,
      << "16.14", 1614 >>, << "16.31", 1631 >>, << "169.50", 16950 >>,
      << "17.01", 1701 >>, << "18.99", 1899 >>, << "19.72", 1972 >>,
      << "19.99", 1999 >>, << "194.39", 19439 >>, << "2.29", 229 >>,
      << "2.99", 299 >>, << "20.70", 2070 >>, << "20.88", 2088 >>,
      << "205.99", 20599 >>, << "209.13", 20913 >>, << "21.00", 2100 >>,
      << "21.70", 2170 >>, << "21.99", 2199 >>, << "219.48", 21948 >>,
      << "22.09", 2209 >>, << "22.15", 2215 >>, << "22.16", 2216 >>,
      << "22.64", 2264 >>, << "22.95", 2295 >>, << "23.25", 2325 >>,
      << "23.99", 2399 >>, << "230.00", 23000 >>, << "237.08", 23708 >>,
      << "24.99", 2499 >>, << "25.00", 2500 >>, << "25.64", 2564 >>,
      << "255.23", 25523 >>, << "26.40", 2640 >>, << "26.45", 2645 >>,
      << "26.99", 2699 >>, << "27.47", 2747 >>, << "28.46", 2846 >>,
      << "28.90", 2890 >>, << "29.29", 2929 >>, << "29.42", 2942 >>,
      << "294.95", 29495 >>, << "3,493.67", 349367 >>,
      << "30.00", 3000 >>, << "30.81", 3081 >>, << "302.60", 30260 >>,
      << "308.34", 30834 >>, << "31.11", 3111 >>, << "31.19", 3119 >>,
      << "319.48", 31948 >>, << "33.78", 3378 >>, << "34.78", 3478 >>,
      << "34.97", 3497 >>, << "37.23", 3723 >>, << "37.99", 3799 >>,
      << "39.98", 3998 >>, << "397.77", 39777 >>, << "4.10", 410 >>,
      << "4.99", 499 >>, << "403.15", 40315 >>, << "41.95", 4195 >>,
      << "42.33", 4233 >>, << "426.08", 42608 >>, << "426.09", 42609 >>,
      << "43.00", 4300 >>, << "448.00", 44800 >>, << "45.02", 4502 >>,
      << "46.00", 4600 >>, << "46.09", 4609 >>, << "46.16", 4616 >>,
      << "46.40", 4640 >>, << "461.29", 46129 >>, << "48.00", 4800 >>,
      << "48.60", 4860 >>, << "499.00", 49900 >>, << "499.59", 49959 >>,
      << "5.00", 500 >>, << "5.40", 540 >>, << "5.66", 566 >>,
      << "50.15", 5015 >>, << "50.85", 5085 >>, << "51.84", 5184 >>,
      << "55.00", 5500 >>, << "55.95", 5595 >>, << "552.11", 55211 >>,
      << "56.22", 5622 >>, << "561.60", 56160 >>, << "57.23", 5723 >>,
      << "59.82", 5982 >>, << "59.95", 5995 >>, << "6.09", 609 >>,
      << "6.72", 672 >>, << "6.84", 684 >>, << "62.30", 6230 >>,
      << "64.00", 6400 >>, << "649.30", 64930 >>, << "7.68", 768 >>,
      << "71.77", 7177 >>, << "73.08", 7308 >>, << "75.32", 7532 >>,
      << "76.31", 7631 >>, << "77.06", 7706 >>, << "779.76", 77976 >>,
      << "79.65", 7965 >>, << "79.83", 7983 >>, << "8.36", 836 >>,
      << "8.69", 869 >>, << "80.00", 8000 >>, << "811.91", 81191 >>,
      << "82.58", 8258 >>, << "82.99", 8299 >>, << "86.72", 8672 >>,
      << "87.76", 8776 >>, << "9.38", 938 >>, << "9.39", 939 >>,
      << "9.64", 964 >>, << "9.72", 972 >>, << "9.99", 999 >>,
      << "91.96", 9196 >>, << "92.41", 9241 >>, << "92.78", 9278 >>,
      << "96.10", 9610 >> }

-----------------------------------------------------------------------------
(* extract_transactions_correct_assignment (utils/extract_correct_order.py)*)
(* and ChaseStatementAnalyzer.extract_transactions                         *)
(* (utils/interim_chase_analysis.py): the same loop over a statement text  *)
(* that is part of the program.  The category interim_chase_analysis.py    *)
(* adds to each transaction is left out.                                   *)

\* ^(\d{2}/\d{2})\s+(.+?)\s+([-]?\d{1,3}(?:,\d{3})*\.?\d{2})$, with
\* merchant = ' '.join(match.group(2).strip().split())
MatchTwoDecimals(line) ==
    LET n == Len(line)
    IN  IF /\ n >= 5
           /\ line[1] \in StatementDates /\ IsSpace(line[2])
           /\ IsSpace(line[n - 1])
           /\ \E p \in StatementAmounts : p[1] = line[n]
        THEN LET p == CHOOSE p \in StatementAmounts : p[1] = line[n]
             IN  Match(JoinWords(Words(Strip(SubSeq(line, 3, n - 2)))),
                       Amount(p[2] < 0, Abs(p[2])))
        ELSE NoMatch

\* An emitted transaction of the two programs.
Assigned(line, cardholder, merchant, amount) ==
    [ line |-> line, cardholder |-> cardholder, merchant |-> merchant,
      amount |-> amount,
      type |-> IF IsNegative(amount) THEN "Credit/Payment" ELSE "Purchase" ]

\* i is the line the while loop is at, one more than the code's index.
StartCorrect ==
    [ i |-> 1, all_transactions |-> << >>, pending_transactions |-> << >>,
      pended |-> {}, cardholder_at |-> {} ]

\* One pass of the while loop when it is at line k; the lines the loop has
\* jumped over leave the state as it is.
StepCorrect(st, k, ls) ==
    LET line == Strip(ls[k])
        m == MatchTwoDecimals(line)
    IN  IF st.i # k THEN st
        ELSE IF line = << >> THEN [ st EXCEPT !.i = k + 1 ]
        ELSE IF /\ k + 1 <= Len(ls)
                /\ Contains(<< "TRANSACTION", "S", " ", "THIS", " ",
                               "CYCLE" >>, ls[k + 1])
        THEN [ st EXCEPT
                 !.all_transactions =
                     @ \o [ n \in 1..Len(st.pending_transactions) |->
                              Assigned(st.pending_transactions[n].line,
                                       line,
                                       st.pending_transactions[n].merchant,
                                       st.pending_transactions[n].amount) ],
                 !.pending_transactions = << >>,
                 !.cardholder_at = @ \cup { k },
                 !.i = IF /\ k + 2 <= Len(ls)
                          /\ Contains(<< "INCLUDING", " ", "PAYMENT", "S",
                                         " ", "RECEIVED" >>, ls[k + 2])
                       THEN k + 3 ELSE k + 2 ]
        ELSE IF m.matched
        THEN [ st EXCEPT
                 !.pending_transactions =
                     Append(@, Pending(k, m.merchant, m.amount)),
                 !.pended = @ \cup { k },
                 !.i = k + 1 ]
        ELSE [ st EXCEPT !.i = k + 1 ]

\* The while loop over the lines lo..hi, by halves; it has nothing to do
\* there once it is past hi.
RECURSIVE LoopCorrect(_, _, _, _)
LoopCorrect(ls, lo, hi, st) ==
    IF st.i > hi \/ lo > hi THEN st
    ELSE IF lo = hi THEN StepCorrect(st, lo, ls)
    ELSE LoopCorrect(ls, ((lo + hi) \div 2) + 1, hi,
                     LoopCorrect(ls, lo, (lo + hi) \div 2, st))

\* os.path.basename(pdf_path) if pdf_path else ""
Basename(pdf_path) ==
    LET slashes == { i \in 1..Len(pdf_path) : pdf_path[i] = "/" }
    IN  IF slashes = {} THEN pdf_path
        ELSE SubSeq(pdf_path,
                    (CHOOSE i \in slashes : \A j \in slashes : j <= i) + 1,
                    Len(pdf_path))

\* get_transaction_data_for_pdf(pdf_path).strip().split('\n')
GetTransactionDataForPdf(pdf_path) ==
    IF Contains(<< "20250306-statements-0801-.pdf" >>, Basename(pdf_path))
    THEN StatementTextMarch
    ELSE StatementTextJuly

-----------------------------------------------------------------------------
(* The three programs that assign transactions to the cardholder line that *)
(* follows them                                                            *)

\* Lines of a statement read by real_chase_analysis.py.
RealLineSamples ==
    { << "01/05", " ", "STORE", " ", "10.00" >>,
      << "01/06", " ", "SHELL", " ", "OIL", " ", "$", "20.00" >>,
      << "01/07", " ", "Payment", " ", "Thank You", " ", "-500.00" >>,
      << "01/08", " ", "UBER", " ", "10.00", " ", "CR" >>,
      << "ASHOK", " ", "RAJ" >>,
      << "MR", " ", "SUMATHI", " ", "RAJ" >>,
      << "Ashok", " ", "Raj" >>,
      << "TRANSACTION", "S", " ", "THIS", " ", "CYCLE", " ", "(", "CARD", " ",
         "0801", ")", " ", "$", "10.00" >>,
      << "Transaction", "s", " ", "This", " ", "Cycle" >>,
      << " " >> }

\* The pdf_file of ChaseStatementAnalyzer
InterimPathSamples ==
    { NoPath,
      << "20250306-statements-0801-.pdf" >>,
      << "statements", "/", "20250306-statements-0801-.pdf" >>,
      << "20250306-statements-0801-.pdf", "/", "20250706-statements-0801-.pdf" >>,
      << "20250706-statements-0801-.pdf" >> }

\* extract_transactions_from_pdf(pdf_text) of real_chase_analysis.py
RealExtractTransactionsFromPdf ==
    /\ impl = "real"
    /\ ~extracted
    /\ LET r == ExtractReal(lines)
       IN  /\ all_transactions' = r.all_transactions
           /\ transactions' = r.all_transactions
           /\ pended' = r.pended
           /\ cardholder_at' = r.cardholder_at
    /\ extracted' = TRUE
    /\ UNCHANGED << pdf_file, statement_previous_balance,
                    statement_new_balance, statement_purchase_total,
                    statement_payment_total, verification, category_table,
                    vars_det, vars_ms, vars_run, vars_cat >>

\* extract_transactions_correct_assignment()
ExtractTransactionsCorrectAssignment ==
    /\ impl = "correct_order"
    /\ ~extracted
    /\ lines' = StatementTextJuly
    /\ LET r == LoopCorrect(lines', 1, Len(lines'), StartCorrect)
       IN  /\ all_transactions' = r.all_transactions
           /\ pended' = r.pended
           /\ cardholder_at' = r.cardholder_at
    /\ extracted' = TRUE
    /\ UNCHANGED << format_type, vars_an, vars_ms, vars_run, vars_cat >>

\* ChaseStatementAnalyzer.extract_transactions()
ExtractTransactions ==
    /\ impl = "interim"
    /\ ~extracted
    /\ lines' = GetTransactionDataForPdf(pdf_file)
    /\ LET r == LoopCorrect(lines', 1, Len(lines'), StartCorrect)
       IN  /\ all_transactions' = r.all_transactions
           /\ transactions' = r.all_transactions
           /\ pended' = r.pended
           /\ cardholder_at' = r.cardholder_at
    /\ extracted' = TRUE
    /\ UNCHANGED << pdf_file, statement_previous_balance,
                    statement_new_balance, statement_purchase_total,
                    statement_payment_total, verification, category_table,
                    format_type, vars_ms, vars_run, vars_cat >>

CardholderStart ==
    /\ impl \in { "real", "correct_order", "interim" }
    /\ pdf_file \in IF impl = "interim" THEN InterimPathSamples
                    ELSE { NoPath }
    /\ lines \in IF impl = "real"
                 THEN SeqUpTo(RealLineSamples, MaxStatementLines)
                 ELSE { << >> }
    /\ format_type = ""
    /\ transactions = << >>
    /\ statement_previous_balance = 0
    /\ statement_new_balance = 0
    /\ statement_purchase_total = 0
    /\ statement_payment_total = 0
    /\ verification = None
    /\ category_table = None
    /\ master_disk = NoFile
    /\ loaded_rules = << >>
    /\ master_categories = << >>
    /\ new_vendors = {}
    /\ statement_txns = << >>
    /\ categorized = << >>
    /\ auto_balance = FALSE
    /\ csv_total = None
    /\ csv_was_modified = FALSE
    /\ runs = 0
    /\ IdleExtract
    /\ IdleRun
    /\ IdleCategorize

NextCardholder ==
    \/ RealExtractTransactionsFromPdf
    \/ ExtractTransactionsCorrectAssignment
    \/ ExtractTransactions

SpecCardholder == CardholderStart /\ [][NextCardholder]_vars

-----------------------------------------------------------------------------
(* C8: the cardholder line follows its transactions                        *)

\* The non-blank lines whose next line contains 'TRANSACTIONS THIS CYCLE'.
C8_BeforeCycleLine ==
    { k \in 1..(Len(lines) - 1) :
        /\ Strip(lines[k]) # << >>
        /\ Contains(<< "TRANSACTION", "S", " ", "THIS", " ", "CYCLE" >>,
                    lines[k + 1]) }

\* The non-blank lines whose next line holds 'TRANSACTION' and, later,
\* 'CYCLE', in whatever case.
C8_BeforeAnyCycleLine ==
    { k \in 1..(Len(lines) - 1) :
        /\ Strip(lines[k]) # << >>
        /\ \E a \in 1..Len(lines[k + 1]) :
               /\ Upper(lines[k + 1][a]) = "TRANSACTION"
               /\ \E b \in (a + 1)..Len(lines[k + 1]) :
                      Upper(lines[k + 1][b]) = "CYCLE" }

\* The nearest line of S after line i, 0 when there is none.
C8_NearestAfter(S, i) ==
    IF \E k \in S : k > i
    THEN CHOOSE k \in S : k > i /\ \A j \in S : j > i => k <= j
    ELSE 0

\* The emitted transactions come in the order of their statement lines,
\* none of them twice.
C8_InStatementOrder ==
    \A n, m \in 1..Len(all_transactions) :
        n < m => all_transactions[n].line < all_transactions[m].line

\* Every emitted transaction that a line of S follows carries the name
\* that name(line) gives for the nearest such line.
C8_NamedByNearest(S, name(_)) ==
    \A n \in 1..Len(all_transactions) :
        LET k == C8_NearestAfter(S, all_transactions[n].line)
        IN  k # 0 => all_transactions[n].cardholder = name(lines[k])

-----------------------------------------------------------------------------
(* main() of chase_analysis.py: every PDF file is given to                 *)
(* process_pdf_file of an analyzer of its own; the master file is shared   *)

MaxPdfs == 2

\* A PDF file: its path, whether extract_pdf_content gets any text out of
\* it, the lines of the text and the figures parse_statement_summary finds
\* in them.
Pdf(path, readable, text, prev, newb, ptotal, payments) ==
    [ path |-> path, readable |-> readable, text |-> text, prev |-> prev,
      newb |-> newb, ptotal |-> ptotal, payments |-> payments ]

\* float(amount_str), in cents
Cents(amount) == IF amount.neg THEN 0 - amount.cents ELSE amount.cents

\* extract_transactions_from_pdf: the extractor of the detected format
ExtractByFormat(ls) ==
    LET f == DetectStatementFormat(ls)
        none(txns) == [ all_transactions |-> txns, pended |-> {},
                        cardholder_at |-> {} ]
    IN  IF f = "5136" THEN none(Extract5136FormatTransactions(ls))
        ELSE IF f = "8635" THEN none(Extract8635FormatTransactions(ls))
        ELSE IF f = "1250" THEN none(Extract1250FormatTransactions(ls))
        ELSE Extract0801FormatTransactions(ls)

\* The loop of apply_master_categorization over the transactions.
RecategorizeAll(txns, mc) ==
    [ i \in 1..Len(txns) |->
        IF txns[i].type = "Fee" /\ txns[i].category = "CC FEES"
        THEN Recategorized("CC FEES", FALSE, {}, NoRule)
        ELSE RecategorizeEnhanced(txns[i].merchant, txns[i].category, mc) ]

\* Step 5: the list process_pdf_file stores in self.transactions;
\* apply_master_categorization has added original_category.
FinalTransactions(txns, results, use_master) ==
    [ i \in 1..Len(txns) |->
        IF use_master
        THEN [ cardholder |-> txns[i].cardholder,
               merchant |-> txns[i].merchant,
               amount |-> Cents(txns[i].amount), type |-> txns[i].type,
               category |-> results[i].category,
               original_category |-> txns[i].category ]
        ELSE [ cardholder |-> txns[i].cardholder,
               merchant |-> txns[i].merchant,
               amount |-> Cents(txns[i].amount), type |-> txns[i].type,
               category |-> txns[i].category ] ]

\* display_results: the verdicts it prints, in order
DisplayResults(verification_, txns, summary_only) ==
    IF summary_only
    THEN << IF Abs(SumAmounts(txns) - verification_.purchase_total_statement)
                 < MatchTolerance
            THEN "Status: MATCH" ELSE "Status: MISMATCH" >>
    ELSE << IF verification_.purchase_match
            THEN "Status: PERFECT MATCH!" ELSE "Status: MISMATCH",
            "Overall: PURCHASE TOTALS MATCH STATEMENT",
            "Status: CATEGORY TOTALS MATCH STATEMENT" >>

\* open(filename, 'w'): the file of that name is replaced
WriteFile(disk, path, rows) ==
    { f \in disk : f.path # path } \cup { [ path |-> path, rows |-> rows ] }

\* `return None` of steps 1 and 3 comes before step 5 has assigned
\* self.transactions: the analyzer keeps the list it had.
ReturnNoneAfterStep5(previous) == << >>

ReturnNone(previous) == previous

\* What one statement was given: the transactions with their categories
\* (the totals of the category summary are sums over them).
Output(pdf, txns) == [ pdf |-> pdf, transactions |-> txns ]

\* process_pdf_file(pdf_path, create_csv=args.csv,
\* use_master=bool(master_file)) on the next PDF file; `fresh` when the
\* analyzer has just been constructed, otherwise it is the analyzer of the
\* call before.
ProcessPdfFileOn(fresh) ==
    /\ impl = "enhanced"
    /\ pdf_files # << >>
    /\ LET pdf == Head(pdf_files)
           r == IF pdf.readable THEN ExtractByFormat(pdf.text)
                ELSE [ all_transactions |-> << >>, pended |-> {},
                       cardholder_at |-> {} ]
           txns == r.all_transactions
           mc == IF args.master THEN LoadMasterCategories(master_disk)
                 ELSE << >>
           results == RecategorizeAll(txns, mc)
       IN  /\ pdf_files' = Tail(pdf_files)
           /\ pdf_file' = pdf.path
           \* Step 1: extract_pdf_content
           /\ lines' = IF pdf.readable THEN pdf.text ELSE << >>
           \* Step 2: parse_statement_summary
           /\ statement_previous_balance' =
                 IF pdf.readable THEN pdf.prev
                 ELSE IF fresh THEN 0 ELSE statement_previous_balance
           /\ statement_new_balance' =
                 IF pdf.readable THEN pdf.newb
                 ELSE IF fresh THEN 0 ELSE statement_new_balance
           /\ statement_purchase_total' =
                 IF pdf.readable THEN pdf.ptotal
                 ELSE IF fresh THEN 0 ELSE statement_purchase_total
           /\ statement_payment_total' =
                 IF pdf.readable THEN pdf.payments
                 ELSE IF fresh THEN 0 ELSE statement_payment_total
           \* Step 3: extract_transactions_from_pdf
           /\ format_type' = IF pdf.readable
                             THEN DetectStatementFormat(pdf.text) ELSE ""
           /\ all_transactions' = txns
           /\ pended' = r.pended
           /\ cardholder_at' = r.cardholder_at
           /\ extracted' = pdf.readable
           /\ IF txns = << >>
              THEN \* "Failed to extract PDF content" or "No transactions
                   \* found in PDF"; return None
                   /\ console' =
                        IF args.summary_only THEN << >>
                        ELSE IF pdf.readable
                        THEN << "No transactions found in PDF" >>
                        ELSE << "Failed to extract PDF content" >>
                   /\ transactions' =
                        ReturnNone(IF fresh THEN << >> ELSE transactions)
                   /\ verification' = None
                   /\ category_table' = None
                   /\ loaded_rules' = << >>
                   /\ master_categories' =
                        IF fresh THEN << >> ELSE master_categories
                   /\ new_vendors' = IF fresh THEN {} ELSE new_vendors
                   /\ categorized' = << >>
                   /\ outputs' = Append(outputs, Output(pdf, << >>))
                   /\ UNCHANGED << master_disk, csv_disk, summary_disk >>
              ELSE \* Step 4: apply_master_categorization
                   /\ IF args.master
                      THEN /\ UpdateMaster(mc, NewVendors(results))
                           /\ categorized' = Categorized(txns, results)
                      ELSE /\ loaded_rules' = << >>
                           /\ master_categories' = << >>
                           /\ new_vendors' = {}
                           /\ categorized' = << >>
                           /\ UNCHANGED master_disk
                   \* Step 5
                   /\ transactions' =
                        FinalTransactions(txns, results, args.master)
                   \* Steps 6 and 7: verify_totals, display_results
                   /\ verification' =
                        VerifyTotals(pdf.path, transactions', pdf.ptotal,
                                     pdf.newb, pdf.payments)
                   /\ console' = DisplayResults(verification', transactions',
                                                args.summary_only)
                   /\ category_table' =
                        DisplayCategoryTable(pdf.path, transactions',
                                             pdf.prev, pdf.newb)
                   \* Step 8: save_to_csv, create_category_summary_file
                   /\ IF args.csv
                      THEN /\ csv_disk' =
                                WriteFile(csv_disk, pdf.path, transactions')
                           /\ summary_disk' =
                                WriteFile(summary_disk, pdf.path,
                                          CategoryStats(transactions'))
                      ELSE UNCHANGED << csv_disk, summary_disk >>
                   /\ outputs' = Append(outputs, Output(pdf, transactions'))
    /\ runs' = runs + 1
    /\ UNCHANGED << impl, statement_txns, auto_balance, csv_total,
                    csv_was_modified, args, master_at_start, vars_cat >>

\* The statements of a directory: 5136 statements with one or two
\* purchases, and a file without text.
DirectoryTextSamples ==
    { << AccountLine("5136"), << "01/05", " ", "OIL", " ", "10.00" >> >>,
      << AccountLine("5136"),
         << "01/06", " ", "SHELL", " ", "OIL", " ", "20.00" >> >>,
      << AccountLine("5136"), << "01/05", " ", "STORE", " ", "10.00" >>,
         << "01/06", " ", "SHELL", " ", "OIL", " ", "20.00" >> >>,
      << AccountLine("5136"), << "01/08", " ", "UBER", " ", "10.00" >> >> }

DirectoryPdfSamples ==
    { Pdf(<< "statement", "-", "5136", ".pdf" >>, TRUE, t, 0, 1000, 1000, 0) :
        t \in DirectoryTextSamples }
    \cup { Pdf(<< "scan", ".pdf" >>, FALSE, << >>, 0, 0, 0, 0) }

DirectoryMasterSamples ==
    { NoFile, File(<< >>),
      File(<< Rule(<< "SHELL" >>, "FUEL"), Rule(<< "UBER" >>, "RIDES") >>),
      Unparsable(<< Rule(<< "SHELL" >>, "FUEL"),
                    Rule(<< "UBER" >>, "RIDES") >>) }

\* main() with -d and --master-file: the PDF files of the directory in
\* sorted order, whatever they are.
DirectoryStart ==
    /\ InitAnalyzer
    /\ InitDetect
    /\ IdleExtract
    /\ impl = "enhanced"
    /\ master_disk \in DirectoryMasterSamples
    /\ master_at_start = master_disk
    /\ args \in [ master : { TRUE }, csv : BOOLEAN, summary_only : { TRUE } ]
    /\ pdf_files \in SeqUpTo(DirectoryPdfSamples, MaxPdfs) \ { << >> }
    /\ outputs = << >>
    /\ csv_disk = {}
    /\ summary_disk = {}
    /\ console = << >>
    /\ IdleCategorize
    /\ loaded_rules = << >>
    /\ master_categories = << >>
    /\ new_vendors = {}
    /\ statement_txns = << >>
    /\ categorized = << >>
    /\ auto_balance = FALSE
    /\ csv_total = None
    /\ csv_was_modified = FALSE
    /\ runs = 0

\* One pass of the loop of main() in directory mode, or the call of single
\* file mode: the analyzer has just been constructed.
MainProcessPdfFile == ProcessPdfFileOn(TRUE)

NextDirectory == MainProcessPdfFile

SpecDirectory == DirectoryStart /\ [][NextDirectory]_vars

\* What process_pdf_file gives a PDF file that is the only one of its
\* directory, the master file being `master`.
ProcessedAlone(pdf, master, use_master) ==
    LET txns == IF pdf.readable THEN ExtractByFormat(pdf.text).all_transactions
                ELSE << >>
        mc == IF use_master THEN LoadMasterCategories(master) ELSE << >>
    IN  FinalTransactions(txns, RecategorizeAll(txns, mc), use_master)

\* C11: in directory mode every PDF file is given the categories (and so
\* the category totals) it is given when it is processed alone from the
\* master file that main() found, whatever files were processed before it.
C11_ProcessedIndependently ==
    \A n \in 1..Len(outputs) :
        outputs[n].transactions =
            ProcessedAlone(outputs[n].pdf, master_at_start, args.master)

\* process_pdf_file called once more on the analyzer of the call before:
\* the method keeps what it finds in the fields of the object it is
\* called on.
ProcessPdfFileAgain == ProcessPdfFileOn(FALSE)

\* A statement with a purchase, one whose purchase stands outside every
\* section (nothing is extracted), and a file without text.
ReusePdfSamples ==
    { Pdf(<< "statement", "-", "5136", ".pdf" >>, TRUE,
          << AccountLine("5136"),
             << "01/06", " ", "SHELL", " ", "OIL", " ", "20.00" >> >>,
          0, 2000, 2000, 0),
      Pdf(<< "statement", "-", "8635", ".pdf" >>, TRUE,
          << AccountLine("8635"),
             << "01/05", " ", "OIL", " ", "10.00" >> >>,
          0, 1000, 1000, 0),
      Pdf(<< "scan", ".pdf" >>, FALSE, << >>, 0, 0, 0, 0) }

ReuseStart ==
    /\ InitAnalyzer
    /\ InitDetect
    /\ IdleExtract
    /\ impl = "enhanced"
    /\ master_disk \in { NoFile, File(<< Rule(<< "UBER" >>, "RIDES") >>) }
    /\ master_at_start = master_disk
    /\ args \in [ master : BOOLEAN, csv : BOOLEAN, summary_only : BOOLEAN ]
    /\ pdf_files \in SeqUpTo(ReusePdfSamples, MaxPdfs) \ { << >> }
    /\ outputs = << >>
    /\ csv_disk = {}
    /\ summary_disk = {}
    /\ console = << >>
    /\ IdleCategorize
    /\ loaded_rules = << >>
    /\ master_categories = << >>
    /\ new_vendors = {}
    /\ statement_txns = << >>
    /\ categorized = << >>
    /\ auto_balance = FALSE
    /\ csv_total = None
    /\ csv_was_modified = FALSE
    /\ runs = 0

NextReuse == ProcessPdfFileAgain

SpecReuse == ReuseStart /\ [][NextReuse]_vars

\* The call returns None at step 1 or at step 3.
NothingExtracted(pdf) ==
    \/ ~pdf.readable
    \/ ExtractByFormat(pdf.text).all_transactions = << >>

-----------------------------------------------------------------------------
(* The master file written and read back                                   *)

\* The items of a dict, whatever their order
Items(d) == { d[i] : i \in 1..Len(d) }

\* The rows after the header stand in ascending order of vendor pattern.
AscendingPatterns(rows) ==
    \A i \in 1..Len(rows) - 1 : TextLess(rows[i].pattern, rows[i + 1].pattern)

-----------------------------------------------------------------------------
(* main() with one PDF file: the path is the user's, the text is the       *)
(* statement's                                                             *)

SinglePathSamples ==
    { << "statement", "-", "5136", ".pdf" >>,
      << "statement", "-", "8635", ".pdf" >>,
      << "statement", ".pdf" >> }

\* A 5136 statement with two purchases, an 8635 statement with a purchase
\* in its PURCHASE section, an 8635 statement whose purchase stands outside
\* every section.
SingleTextSamples ==
    { << AccountLine("5136"), << "01/05", " ", "STORE", " ", "10.00" >>,
         << "01/06", " ", "SHELL", " ", "OIL", " ", "20.00" >> >>,
      << AccountLine("8635"), << "PURCHASE" >>,
         << "01/05", " ", "STORE", " ", "10.00" >> >>,
      << AccountLine("8635"), << "01/05", " ", "OIL", " ", "10.00" >> >> }

SinglePdfSamples ==
    { Pdf(path, TRUE, text, prev, newb, ptotal, payments) :
        path \in SinglePathSamples, text \in SingleTextSamples,
        prev \in { 0, 500 }, newb \in { 1000, 3000 },
        ptotal \in { 1000, 3000 }, payments \in { 0, 500 } }
    \cup { Pdf(<< "scan", ".pdf" >>, FALSE, << >>, 0, 0, 0, 0) }

SingleFileStart ==
    /\ InitAnalyzer
    /\ InitDetect
    /\ IdleExtract
    /\ impl = "enhanced"
    /\ master_disk \in { NoFile, File(<< Rule(<< "SHELL" >>, "FUEL") >>) }
    /\ master_at_start = master_disk
    /\ args \in [ master : BOOLEAN, csv : BOOLEAN, summary_only : BOOLEAN ]
    /\ pdf_files \in { << pdf >> : pdf \in SinglePdfSamples }
    /\ outputs = << >>
    /\ csv_disk = {}
    /\ summary_disk = {}
    /\ console = << >>
    /\ IdleCategorize
    /\ loaded_rules = << >>
    /\ master_categories = << >>
    /\ new_vendors = {}
    /\ statement_txns = << >>
    /\ categorized = << >>
    /\ auto_balance = FALSE
    /\ csv_total = None
    /\ csv_was_modified = FALSE
    /\ runs = 0

NextSingleFile == MainProcessPdfFile

SpecSingleFile == SingleFileStart /\ [][NextSingleFile]_vars

\* The format verify_totals, get_statement_month and display_category_table
\* take from the path: the 8635 rule, the 1250 rule, or the rule of the
\* other formats.
PathFormat(path) ==
    IF Contains(<< "8635" >>, path) THEN "8635"
    ELSE IF Contains(<< "1250" >>, path) THEN "1250"
    ELSE "other"

\* The same classes for the format detect_statement_format returned.
TextFormat(f) == IF f \in { "8635", "1250" } THEN f ELSE "other"

\* C14: the format detect_statement_format chose from the text of a
\* processed statement is the format its file path stands for.
C14_PathFormatIsTextFormat ==
    (pdf_file # NoPath /\ verification # None)
    => PathFormat(pdf_file) = TextFormat(format_type)

\* The two lines by which the detailed report says that the totals
\* reconcile.
SuccessLines ==
    { "Overall: PURCHASE TOTALS MATCH STATEMENT",
      "Status: CATEGORY TOTALS MATCH STATEMENT" }

\* C15: the detailed report of display_results states that the purchase
\* totals and the category totals match the statement only when
\* verification['purchase_match'] is true.
C15_SuccessLinesOnlyOnMatch ==
    (verification # None /\ ~args.summary_only)
    => \A i \in 1..Len(console) :
          console[i] \in SuccessLines => verification.purchase_match

\* C16: for a path with '8635', display_category_table reports a mismatch
\* whenever the sum of the extracted transactions differs by a cent or
\* more from new balance - previous balance + the statement's payments.
C16_Mismatch8635Reported ==
    (category_table # None /\ Contains(<< "8635" >>, pdf_file))
    => (Abs(SumAmounts(transactions)
            - ((statement_new_balance - statement_previous_balance)
               + statement_payment_total)) >= MatchTolerance
        => ~category_table.match)

\* C17: when the master file that main() found cannot be read or parsed,
\* load_master_categories returns an empty table and the master
\* categorization that follows leaves the file as it was.
C17_UnreadableMasterKept ==
    IsUnparsable(master_at_start)
    => /\ loaded_rules = << >>
       /\ master_disk = master_at_start

-----------------------------------------------------------------------------
(* categorize_transaction of chase_analysis.py and of                      *)
(* real_chase_analysis.py. A merchant is cut into chunks so that every     *)
(* occurrence of a keyword in it is a run of whole chunks.                 *)

MaxMerchantWords == 2

\* One category of a categorizer with its keywords, in the order of the code
Keywords(category, keywords) == [ category |-> category, keywords |-> keywords ]

\* The lists of the if/elif chain of
\* EnhancedChaseStatementAnalyzer.categorize_transaction
BasicCategorizationPatterns ==
    << Keywords("GAS/FUEL",
         << << "SHELL" >>, << "CHEVRON" >>, << "EXXON" >>,
           << "MOBIL" >>, << "ARCO" >>, << "BP", " " >>,
           << "COSTCO", " ", "GAS" >>, << "GAS" >> >>),
       Keywords("GROCERY",
         << << "SAFEWAY" >>, << "QFC" >>, << "COSTCO", " ", "WHSE" >>,
           << "TARGET" >>, << "WALMART" >> >>),
       Keywords("SHOPPING",
         << << "AMAZON" >>, << "AMZN" >> >>),
       Keywords("RESTAURANT",
         << << "RESTAURANT" >>, << "STARBUCKS" >>, << "MCDONALD" >>,
           << "SUBWAY" >>, << "PIZZA" >> >>),
       Keywords("UTILITIES",
         << << "ELECTRIC" >>, << "WATER" >>, << "GAS", " ", "BILL" >>,
           << "COMCAST" >>, << "VERIZON" >> >>),
       Keywords("TRAVEL/DINING",
         << << "UNITED" >>, << "DELTA" >>, << "AMERICAN", " ", "AIR" >>,
           << "SOUTHWEST" >>, << "HOTEL" >> >>),
       Keywords("SUBSCRIPTIONS",
         << << "NETFLIX" >>, << "SPOTIFY" >>, << "APPLE.COM" >>,
           << "GOOGLE" >> >>) >>

\* self.category_mapping of RealChaseStatementAnalyzer.__init__, in
\* insertion order
CategoryMapping ==
    << Keywords("RESTAURANT",
         << << "RESTAURANT" >>, << "DEPOT" >>, << "CHEFSTORE" >>,
            << "TORCHYS" >>, << "CHIPOTLE" >>,
            << "VELVET", " ", "TACO" >>, << "CHERRY" >>, << "AGAS" >>,
            << "EL", " ", "CENTRO" >>, << "DEAN" >>, << "CICCIOS" >>,
            << "FORNO", " ", "MAGICO" >>, << "Q", " ", "BAR" >>,
            << "SMOKING", " ", "GUN" >>, << "OPEN", " ", "BAR" >>,
            << "CAVA" >>, << "JAMBA", " ", "JUICE" >> >>),
       Keywords("GROCERY",
         << << "COSTCO" >>, << "SAFEWAY" >>,
            << "INDIA", " ", "SUPERMARKET" >>,
            << "APNA", " ", "BAZAAR" >>, << "DENNIS", " ", "MARKET" >>,
            << "MARKET", " ", "OF", " ", "CHOICE" >>, << "TARGET" >>,
            << "GDP*TP" >>, << "CAFE", " ", "WEEKEND" >> >>),
       Keywords("GAS/FUEL",
         << << "COSTCO", " ", "GAS" >>,
            << "NORTHWEST", " ", "BIOFUEL" >>, << "CHEVRON" >>,
            << "SHELL" >>, << "MOBIL" >>, << "BP" >> >>),
       Keywords("UTILITIES",
         << << "PORTLAND", " ", "GENERAL", " ", "ELECTRIC" >>,
            << "TUALATIN", " ", "VALLEY", " ", "WATER" >>,
            << "COMCAST" >>, << "XFINITY" >> >>),
       Keywords("SUBSCRIPTIONS",
         << << "NETFLIX" >>, << "HULU" >>, << "GOOGLE" >>,
            << "YOUTUBE", " ", "TV" >>, << "APPLE.COM", "/BILL" >>,
            << "VONAGE" >> >>),
       Keywords("SHOPPING",
         << << "AMAZON" >>, << "EBAY" >>, << "NORDSTROM" >>,
            << "GAMESTOP" >>, << "OAKLEY" >> >>),
       Keywords("TRAVEL/DINING",
         << << "IAH" >>, << "PDX" >>,
            << "SALT", " ", "AND", " ", "STRAW" >>,
            << "KRISPY", " ", "KREME" >>,
            << "MY", " ", "FAVORITE", " ", "MUFFIN" >>,
            << "OJOS", " ", "LOCOS" >>,
            << "THE", " ", "LOT", " ", "POINT", " ", "LOMA" >>,
            << "GAME", " ", "EMPIRE" >> >>),
       Keywords("SERVICES",
         << << "ABOVE", " ", "ALL", " ", "ACCOUNTING" >>,
            << "CLR*StretchLab" >>, << "REDTAIL", " ", "GOLF" >>,
            << "LTF*LIFE", " ", "TIME" >>,
            << "ADT", " ", "SECURITY" >>, << "PITMAN" >>,
            << "Saela", " ", "Pest", " ", "Control" >>,
            << "US", " ", "LINEN" >>, << "PERFECTPOUR" >>,
            << "WEBSTAURANT", " ", "STORE" >>, << "SPOTHOPPERAPP" >>,
            << "TANASBOURNE", " ", "PLACE" >> >>),
       Keywords("GOVERNMENT",
         << << "CITY", " ", "OF", " ", "HILLSBORO" >>,
            << "OR", " ", "SEC", " ", "STATE" >>,
            << "PORTLAND", " ", "PARKING" >> >>),
       Keywords("MEDICAL/HEALTH",
         << << "LYMPHOMA", " ", "ACTION" >>, << "NATIONWIDE" >> >>),
       Keywords("TELECOM",
         << << "CCSI", " ", "EFAX" >> >>),
       Keywords("MISCELLANEOUS",
         << << "CULTUREMAP" >>, << "CVSExtraCare" >> >>),
       Keywords("PAYMENT",
         << << "Payment", " ", "Thank You" >>, << "PAYMENT" >> >>) >>

\* mutant: the grocery list is tried before the gas list
CategorizeTransactionGroceryFirst(merchant, amount) ==
    LET merchant_upper == UpperText(merchant)
        any(i) == ContainsAny(Range(BasicCategorizationPatterns[i].keywords),
                              merchant_upper)
    IN  IF any(2) THEN "GROCERY"
        ELSE IF any(1) THEN "GAS/FUEL"
        ELSE IF any(3) THEN "SHOPPING"
        ELSE IF any(4) THEN "RESTAURANT"
        ELSE IF any(5) THEN "UTILITIES"
        ELSE IF any(6) THEN "TRAVEL/DINING"
        ELSE IF any(7) THEN "SUBSCRIPTIONS"
        ELSE "OTHER"

\* EnhancedChaseStatementAnalyzer.categorize_transaction(merchant, amount)
CategorizeTransaction(merchant, amount) ==
    LET merchant_upper == UpperText(merchant)
        any(i) == ContainsAny(Range(BasicCategorizationPatterns[i].keywords),
                              merchant_upper)
    IN  IF any(1) THEN "GAS/FUEL"
        ELSE IF any(2) THEN "GROCERY"
        ELSE IF any(3) THEN "SHOPPING"
        ELSE IF any(4) THEN "RESTAURANT"
        ELSE IF any(5) THEN "UTILITIES"
        ELSE IF any(6) THEN "TRAVEL/DINING"
        ELSE IF any(7) THEN "SUBSCRIPTIONS"
        ELSE "OTHER"

\* RealChaseStatementAnalyzer.categorize_transaction(merchant, amount): the
\* loop over category_mapping.items() from entry i on
RECURSIVE RealCategorizeFrom(_, _)
RealCategorizeFrom(i, merchant_upper) ==
    IF i > Len(CategoryMapping) THEN "OTHER"
    ELSE LET category == CategoryMapping[i].category
             keywords == CategoryMapping[i].keywords
         IN  IF category \in { "PAYMENT", "REFUND/CREDIT" }
             THEN RealCategorizeFrom(i + 1, merchant_upper)
             ELSE IF \E j \in 1..Len(keywords) :
                        Contains(UpperText(keywords[j]), merchant_upper)
             THEN category
             ELSE RealCategorizeFrom(i + 1, merchant_upper)

RealCategorizeTransaction(merchant, amount) ==
    RealCategorizeFrom(1, UpperText(merchant))

\* The words of the merchants that are categorized
MerchantWordSamples ==
    { << "SHELL" >>, << "shell" >>, << "COSTCO" >>, << "GAS" >>,
      << "VE", "GAS" >>, << "WHSE" >>, << "BP" >>, << "AMAZON" >>,
      << "GOOGLE" >>, << "HOTEL" >>, << "DEPOT" >>, << "PAYMENT" >>,
      << "BILL" >>, << "Target" >>, << "STORE" >> }

\* ' '.join(words)
RECURSIVE MerchantOf(_)
MerchantOf(words) ==
    IF words = << >> THEN << >>
    ELSE IF Len(words) = 1 THEN words[1]
    ELSE words[1] \o << " " >> \o MerchantOf(Tail(words))

\* A call categorize_transaction(merchant, amount)
Call(merchant, amount) == [ merchant |-> merchant, amount |-> amount ]

CategorizeStart ==
    /\ InitAnalyzer
    /\ InitDetect
    /\ IdleExtract
    /\ IdleRun
    /\ impl \in { "enhanced", "real" }
    /\ master_disk = NoFile
    /\ loaded_rules = << >>
    /\ master_categories = << >>
    /\ new_vendors = {}
    /\ statement_txns = << >>
    /\ categorized = << >>
    /\ auto_balance = FALSE
    /\ csv_total = None
    /\ csv_was_modified = FALSE
    /\ runs = 0
    /\ called \in { Call(MerchantOf(ws), amount) :
                      ws \in SeqUpTo(MerchantWordSamples, MaxMerchantWords),
                      amount \in { 1000, 0 - 2500 } }
    /\ returned = ""

CallCategorizeTransaction ==
    /\ impl = "enhanced"
    /\ called # None
    /\ returned = ""
    /\ returned' = CategorizeTransaction(called.merchant, called.amount)
    /\ UNCHANGED << called, vars_an, vars_det, vars_ms, vars_ex, vars_run >>

CallRealCategorizeTransaction ==
    /\ impl = "real"
    /\ called # None
    /\ returned = ""
    /\ returned' = RealCategorizeTransaction(called.merchant, called.amount)
    /\ UNCHANGED << called, vars_an, vars_det, vars_ms, vars_ex, vars_run >>

NextCategorize ==
    \/ CallCategorizeTransaction
    \/ CallRealCategorizeTransaction

SpecCategorize == CategorizeStart /\ [][NextCategorize]_vars

\* The order in which the claim has the categories tried
C18_EnhancedOrder ==
    << "GAS/FUEL", "GROCERY", "SHOPPING", "RESTAURANT", "UTILITIES",
       "TRAVEL/DINING", "SUBSCRIPTIONS" >>

C18_RealOrder ==
    << "RESTAURANT", "GROCERY", "GAS/FUEL", "UTILITIES", "SUBSCRIPTIONS",
       "SHOPPING", "TRAVEL/DINING", "SERVICES", "GOVERNMENT",
       "MEDICAL/HEALTH", "TELECOM", "MISCELLANEOUS" >>

\* Some keyword of category c is a substring of the merchant, letter case
\* apart.
C18_HasKeyword(table, c, merchant) ==
    \E i \in 1..Len(table) :
        /\ table[i].category = c
        /\ \E j \in 1..Len(table[i].keywords) :
              Contains(UpperText(table[i].keywords[j]), UpperText(merchant))

\* The first category of the order that has such a keyword, or OTHER
C18_FirstCategory(order, table, merchant) ==
    LET having == { i \in 1..Len(order) :
                      C18_HasKeyword(table, order[i], merchant) }
    IN  IF having = {} THEN "OTHER"
        ELSE order[CHOOSE i \in having : \A j \in having : i <= j]

\* C18: categorize_transaction returns, for every merchant, the category of
\* the first rule in the fixed order that has a keyword occurring in the
\* merchant whatever the letter case, and OTHER when there is none; the
\* amount has no part in it.
C18_FirstMatchingRule ==
    returned # ""
    => returned =
         IF impl = "enhanced"
         THEN C18_FirstCategory(C18_EnhancedOrder,
                                BasicCategorizationPatterns, called.merchant)
         ELSE C18_FirstCategory(C18_RealOrder, CategoryMapping,
                                called.merchant)

\* C18 witness: a merchant written in lower case that holds keywords of two
\* categories has been categorized by the first of them.
C18_Witness ==
    /\ returned = "GAS/FUEL"
    /\ impl = "enhanced"
    /\ called.merchant # UpperText(called.merchant)
    /\ C18_HasKeyword(BasicCategorizationPatterns, "GAS/FUEL",
                      called.merchant)
    /\ C18_HasKeyword(BasicCategorizationPatterns, "GROCERY",
                      called.merchant)

=============================================================================
